---- MODULE Spec2Model ----
(***************************************************************************)
(* A model of the QuantCore quantitative-simulation engine:                *)
(*   - the AnomalyDetector and its single-value methods (anomaly.ts),      *)
(*   - the Monte Carlo / importance-sampling estimators (monte-carlo.ts,   *)
(*     importance-sampling.ts),                                            *)
(*   - the ParticleFilter (particle-filter.ts),                            *)
(*   - the RegimeHMM (regime.ts),                                          *)
(*   - the matrix decompositions (copulas' cholesky, anomaly's             *)
(*     invertMatrix).                                                      *)
(* Each component has its own variables and its own specification; the     *)
(* variables of the other components stay at their idle values.            *)
(*                                                                         *)
(* Numbers.  The engine computes in IEEE doubles.  The model computes in   *)
(* integers: inputs are integers or fixed-point numbers whose scale is     *)
(* named where it is used, and every quotient or root states its rounding. *)
(* A double that is NaN is the model value NaN.                            *)
(***************************************************************************)
EXTENDS Integers, Sequences, FiniteSets, TLC

VARIABLES
  \* AnomalyDetector (anomaly.ts)
  adMethod, adThreshold, adMaxHistory, adHistory, adResult, adOp, adArg,
  adSupplied,
  \* Monte Carlo and importance-sampling estimators
  mcKind, mcN, mcStrata, mcCrit, mcI, mcS, mcSum, mcSumSq,
  mcStratumEstimates, mcPc, mcResult,
  \* ParticleFilter (particle-filter.ts)
  pfParticles, pfHistory, pfCalls, pfOp, pfPre, pfResample,
  \* RegimeHMM (regime.ts)
  hmmTransitionMatrix, hmmEmissionMeans, hmmEmissionStds, hmmStateProbs,
  hmmHistory, hmmOp, hmmArg, hmmResult, hmmPath, hmmIterations,
  \* matrix decompositions (demo.ts, anomaly.ts)
  matA, matOp, matCholesky, matInverse, matSamples,
  \* MultiAssetParticleFilter (particle-filter.ts)
  mafFilters, mafCreated, mafMentioned, mafOp, mafArg, mafReturned,
  \* the filter and detector caches of the trend integration
  viralFilters, anomalyDetectors, qcOp, qcArg,
  \* a params object handed to RegimeHMM constructors, and a second instance
  prmParams, prmOther, prmHolders,
  \* a call of a function of the library: its name, arguments and result
  fnName, fnArgs, fnResult

adVars == <<adMethod, adThreshold, adMaxHistory, adHistory, adResult, adOp,
            adArg, adSupplied>>

mcVars == <<mcKind, mcN, mcStrata, mcCrit, mcI, mcS, mcSum, mcSumSq,
            mcStratumEstimates, mcPc, mcResult>>

pfVars == <<pfParticles, pfHistory, pfCalls, pfOp, pfPre, pfResample>>

hmmVars == <<hmmTransitionMatrix, hmmEmissionMeans, hmmEmissionStds,
             hmmStateProbs, hmmHistory, hmmOp, hmmArg, hmmResult, hmmPath,
             hmmIterations>>

matVars == <<matA, matOp, matCholesky, matInverse, matSamples>>

mafVars == <<mafFilters, mafCreated, mafMentioned, mafOp, mafArg, mafReturned>>

qcVars == <<viralFilters, anomalyDetectors, qcOp, qcArg>>

prmVars == <<prmParams, prmOther, prmHolders>>

fnVars == <<fnName, fnArgs, fnResult>>

vars == <<adVars, mcVars, pfVars, hmmVars, matVars, mafVars, qcVars, prmVars, fnVars>>

\* the variables of the other components
notAD == <<mcVars, pfVars, hmmVars, matVars, mafVars, qcVars, prmVars, fnVars>>
notMC == <<adVars, pfVars, hmmVars, matVars, mafVars, qcVars, prmVars, fnVars>>
notPF == <<adVars, mcVars, hmmVars, matVars, mafVars, qcVars, prmVars, fnVars>>
notHMM == <<adVars, mcVars, pfVars, matVars, mafVars, qcVars, prmVars, fnVars>>
notMat == <<adVars, mcVars, pfVars, hmmVars, mafVars, qcVars, prmVars, fnVars>>
notMAF == <<adVars, mcVars, pfVars, hmmVars, matVars, qcVars, prmVars, fnVars>>
notFn == <<adVars, mcVars, pfVars, hmmVars, matVars, mafVars, qcVars, prmVars>>

(***************************************************************************)
(* Generic helpers                                                         *)
(***************************************************************************)
Abs(x) == IF x < 0 THEN -x ELSE x

Min2(a, b) == IF a < b THEN a ELSE b

Max2(a, b) == IF a > b THEN a ELSE b

\* ceil(a / b) for a >= 0, b > 0
CeilDiv(a, b) == (a + b - 1) \div b

RECURSIVE SumSeq(_)
SumSeq(s) == IF s = <<>> THEN 0 ELSE Head(s) + SumSeq(Tail(s))

RECURSIVE InsertSorted(_, _)
InsertSorted(x, s) ==
  IF s = <<>> THEN <<x>>
  ELSE IF x < Head(s) THEN <<x>> \o s
  ELSE <<Head(s)>> \o InsertSorted(x, Tail(s))

\* Array.prototype.sort((a, b) => a - b): ascending
RECURSIVE SortAsc(_)
SortAsc(s) == IF s = <<>> THEN <<>> ELSE InsertSorted(Head(s), SortAsc(Tail(s)))

\* the tuple <<f[1], ..., f[n]>> of a function on 1..n
RECURSIVE TupleOf(_, _)
TupleOf(f, n) == IF n = 0 THEN <<>> ELSE Append(TupleOf(f, n - 1), f[n])

\* All sequences over S of length 0..n
SeqsUpTo(S, n) == UNION {[1..k -> S] : k \in 0..n}

\* Array.prototype.slice(start): a negative start counts from the end, and
\* -0 is 0, so slice(-0) is the whole array.
SliceFrom(a, start) ==
  LET len == Len(a)
      k   == IF start < 0 THEN Max2(len + start, 0) ELSE Min2(start, len)
  IN  SubSeq(a, k + 1, len)

(***************************************************************************)
(* Anomaly detection (anomaly.ts)                                          *)
(*                                                                         *)
(* Values are integers.  Thresholds are in tenths (ThScale), scores in     *)
(* hundredths (ScoreScale), rounded up: for a threshold on the tenths grid *)
(* "score > threshold" on the rounded-up score is exactly the comparison   *)
(* of the real numbers.                                                    *)
(***************************************************************************)
MaxValue == 1
MaxWindow == 4
MaxSupplied == 5
MaxLoad == 2

ThScale == 5 + 5
ScoreScale == ThScale * ThScale

AdValues == 0..MaxValue
AdMethods == {"zscore", "iqr", "mad", "isolation_forest"}
\* -1.0, 0 and 1.5
AdThresholds == {-ThScale, 0, ThScale + 5}

\* threshold (tenths) on the score scale
ThOnScore(th) == th * (ScoreScale \div ThScale)

\* the sentinel score of a zero-variance history
SentinelScore == 999 * ScoreScale

\* ceil(sqrt(num/den)) for num >= 0, den > 0: the smallest k >= 0 with
\* k*k*den >= num, found by doubling and bisection.
RECURSIVE SqrtUpper(_, _, _)
SqrtUpper(h, num, den) ==
  IF h * h * den >= num THEN h ELSE SqrtUpper(2 * h, num, den)

RECURSIVE SqrtBisect(_, _, _, _)
SqrtBisect(lo, hi, num, den) ==
  IF lo >= hi THEN hi
  ELSE LET mid == (lo + hi) \div 2
       IN  IF mid * mid * den >= num
           THEN SqrtBisect(lo, mid, num, den)
           ELSE SqrtBisect(mid + 1, hi, num, den)

CeilSqrt(num, den) == SqrtBisect(0, SqrtUpper(1, num, den), num, den)

\* What a method returns, with the contents of the caller's history array
\* when it returns.
Outcome(res, hist) == [result |-> res, history |-> hist]

\* A sort of the caller's array itself (history.sort(...)) would leave it sorted.
SortedInPlace(history) ==
  [sorted |-> SortAsc(history), original |-> SortAsc(history)]

\* [...history].sort((a, b) => a - b): the spread makes a copy, the caller's
\* array keeps its order.
SortedCopy(history) ==
  [sorted |-> SortAsc(history), original |-> history]

\* detectAnomalyZScore: mean = sum/n, variance = sum((x-mean)^2)/n.  With
\* dev(x) = n*x - sum:  (value-mean)/std = sqrt(n * dev(value)^2 / sum dev(x)^2).
DetectAnomalyZScore(value, history, threshold) ==
  IF Len(history) < 2
  THEN Outcome([isAnomaly |-> FALSE, score |-> 0, threshold |-> threshold,
                method |-> "zscore"], history)
  ELSE
    LET n     == Len(history)
        sum   == SumSeq(history)
        devSq == SumSeq([i \in 1..n |-> (n * history[i] - sum) * (n * history[i] - sum)])
        num   == n * (n * value - sum) * (n * value - sum)
    IN  IF devSq = 0
        THEN Outcome([isAnomaly |-> n * value # sum,
                      score |-> IF n * value # sum THEN SentinelScore ELSE 0,
                      threshold |-> threshold, method |-> "zscore"], history)
        ELSE LET score == CeilSqrt(num * ScoreScale * ScoreScale, devSq)
             IN  Outcome([isAnomaly |-> score > ThOnScore(threshold),
                          score |-> score, threshold |-> threshold,
                          method |-> "zscore"], history)

\* detectAnomalyIQR: sorts a copy; q1 = sorted[floor(n*0.25)], q3 = sorted[floor(n*0.75)]
DetectAnomalyIQR(value, history, k) ==
  IF Len(history) < 4
  THEN Outcome([isAnomaly |-> FALSE, score |-> 0, threshold |-> k,
                method |-> "iqr"], history)
  ELSE
    LET sc     == SortedCopy(history)
        sorted == sc.sorted
        n      == Len(sorted)
        q1     == sorted[(n \div 4) + 1]
        q3     == sorted[((3 * n) \div 4) + 1]
        iqr    == q3 - q1
        \* bounds and value in tenths
        lowerBound == ThScale * q1 - k * iqr
        upperBound == ThScale * q3 + k * iqr
        v          == ThScale * value
        isAnomaly  == v < lowerBound \/ v > upperBound
        divisor    == IF iqr # 0 THEN iqr ELSE 1
        score == IF v < lowerBound
                 THEN CeilDiv((lowerBound - v) * (ScoreScale \div ThScale), divisor)
                 ELSE IF v > upperBound
                 THEN CeilDiv((v - upperBound) * (ScoreScale \div ThScale), divisor)
                 ELSE 0
    IN  Outcome([isAnomaly |-> isAnomaly, score |-> score, threshold |-> k,
                 method |-> "iqr"], sc.original)

\* a detectAnomalyMAD that compares the signed modified z-score
DetectAnomalyMADSigned(value, history, threshold) ==
  IF Len(history) < 3
  THEN Outcome([isAnomaly |-> FALSE, score |-> 0, threshold |-> threshold,
                method |-> "mad"], history)
  ELSE
    LET sorted == SortAsc(history)
        median == sorted[(Len(sorted) \div 2) + 1]
        mad    == SortAsc([i \in 1..Len(history) |->
                             Abs(history[i] - median)])[(Len(history) \div 2) + 1]
    IN  IF mad = 0
        THEN Outcome([isAnomaly |-> value # median,
                      score |-> IF value # median THEN SentinelScore ELSE 0,
                      threshold |-> threshold, method |-> "mad"], history)
        ELSE Outcome([isAnomaly |->
                        6745 * (value - median) * ThScale > threshold * 10000 * mad,
                      score |-> CeilDiv(6745 * Abs(value - median) * ScoreScale,
                                        10000 * mad),
                      threshold |-> threshold, method |-> "mad"], history)

\* detectAnomalyMAD: median of a sorted copy, MAD = median of |x - median|
\* (history.map makes a new array, which is then sorted in place).
DetectAnomalyMAD(value, history, threshold) ==
  IF Len(history) < 3
  THEN Outcome([isAnomaly |-> FALSE, score |-> 0, threshold |-> threshold,
                method |-> "mad"], history)
  ELSE
    LET sc         == SortedCopy(history)
        sorted     == sc.sorted
        hist       == sc.original
        median     == sorted[(Len(sorted) \div 2) + 1]
        deviations == [i \in 1..Len(hist) |-> Abs(hist[i] - median)]
        sortedDev  == SortAsc(deviations)
        mad        == sortedDev[(Len(sortedDev) \div 2) + 1]
    IN  IF mad = 0
        THEN Outcome([isAnomaly |-> value # median,
                      score |-> IF value # median THEN SentinelScore ELSE 0,
                      threshold |-> threshold, method |-> "mad"], hist)
        ELSE \* |0.6745 * (value - median) / mad|, in hundredths, rounded up
             LET score == CeilDiv(6745 * Abs(value - median) * ScoreScale, 10000 * mad)
             IN  Outcome([isAnomaly |-> score > ThOnScore(threshold),
                          score |-> score, threshold |-> threshold,
                          method |-> "mad"], hist)

\* isolationForestScore: 0 below 10 values; otherwise 2^(-avgPath/c(n)), which
\* depends on Math.random(): any of these scores (hundredths).
IFRandomScores == {30, 50, 80}

IsolationForestScores(value, history) ==
  IF Len(history) < 10 THEN {0} ELSE IFRandomScores

\* detectAnomalyIsolationForest: every outcome the random trees can give
DetectAnomalyIsolationForest(value, history, threshold) ==
  { Outcome([isAnomaly |-> score > ThOnScore(threshold), score |-> score,
             threshold |-> threshold, method |-> "isolation_forest"], history)
    : score \in IsolationForestScores(value, history) }

\* AnomalyDetector.detect: dispatch on config.method (default: MAD)
DetectOutcomes(method, value, history, threshold) ==
  CASE method = "zscore" -> {DetectAnomalyZScore(value, history, threshold)}
    [] method = "iqr"    -> {DetectAnomalyIQR(value, history, threshold)}
    [] method = "mad"    -> {DetectAnomalyMAD(value, history, threshold)}
    [] method = "isolation_forest" ->
         DetectAnomalyIsolationForest(value, history, threshold)
    [] OTHER -> {DetectAnomalyMAD(value, history, threshold)}

NoResult == [isAnomaly |-> FALSE, score |-> 0, threshold |-> 0, method |-> "none"]

\* new AnomalyDetector(config): maxHistory = windowSize, history = []
InitAD ==
  /\ adMethod \in AdMethods
  /\ adThreshold \in AdThresholds
  /\ adMaxHistory \in 0..MaxWindow
  /\ adHistory = <<>>
  /\ adResult = NoResult
  /\ adOp = "new"
  /\ adArg = <<>>
  /\ adSupplied = <<>>

\* a window that loses the value just pushed instead of the oldest one
PushDropNewest(history, value, maxHistory) ==
  LET pushed == Append(history, value)
  IN  IF Len(pushed) > maxHistory THEN history ELSE pushed

\* history.push(value); if (history.length > maxHistory) history.shift()
PushShift(history, value, maxHistory) ==
  LET pushed == Append(history, value)
  IN  IF Len(pushed) > maxHistory THEN Tail(pushed) ELSE pushed

\* AnomalyDetector.check(value)
Check(value) ==
  /\ Len(adSupplied) < MaxSupplied
  /\ \E out \in DetectOutcomes(adMethod, value, adHistory, adThreshold) :
       /\ adResult' = out.result
       /\ adHistory' = PushShift(out.history, value, adMaxHistory)
  /\ adOp' = "check"
  /\ adArg' = <<value>>
  /\ adSupplied' = Append(adSupplied, value)
  /\ UNCHANGED <<adMethod, adThreshold, adMaxHistory>>
  /\ UNCHANGED notAD

\* AnomalyDetector.detect(value)
Detect(value) ==
  /\ \E out \in DetectOutcomes(adMethod, value, adHistory, adThreshold) :
       /\ adResult' = out.result
       /\ adHistory' = out.history
  /\ adOp' = "detect"
  /\ adArg' = <<value>>
  /\ UNCHANGED <<adMethod, adThreshold, adMaxHistory, adSupplied>>
  /\ UNCHANGED notAD

\* AnomalyDetector.loadHistory(data): history = data.slice(-maxHistory)
LoadHistoryResult(data, maxHistory) == SliceFrom(data, -maxHistory)

LoadHistory(data) ==
  /\ adHistory' = LoadHistoryResult(data, adMaxHistory)
  /\ adOp' = "loadHistory"
  /\ adArg' = <<>>
  /\ adSupplied' = data
  /\ UNCHANGED <<adMethod, adThreshold, adMaxHistory, adResult>>
  /\ UNCHANGED notAD

\* AnomalyDetector.reset()
ResetAD ==
  /\ adHistory' = <<>>
  /\ adOp' = "reset"
  /\ adArg' = <<>>
  /\ adSupplied' = <<>>
  /\ UNCHANGED <<adMethod, adThreshold, adMaxHistory, adResult>>
  /\ UNCHANGED notAD

\* The demo's detector (demo.ts, section 7): method 'mad', the default window
\* of 100 values, histories of values around 10 and the demo's test values.
MaxDemoLoad == 3
DefaultWindow == 100

NormalData ==
  <<10, 11, 9, 10, 12, 11, 10, 9, 11, 10, 12, 11, 10, 9, 10, 11, 10, 12, 11, 10>>
DemoValues == {9, 10, 11, 12}
TestValues == {10, 25, 11, 50, 9}
\* 0, the demo's 3.0 and the default 3.5
DemoThresholds == {0, 3 * ThScale, 3 * ThScale + 5}
DemoHistories == SeqsUpTo(DemoValues, MaxDemoLoad) \cup {NormalData}

\* new AnomalyDetector({ method: 'mad', threshold })
InitDemoAD ==
  /\ adMethod = "mad"
  /\ adThreshold \in DemoThresholds
  /\ adMaxHistory = DefaultWindow
  /\ adHistory = <<>>
  /\ adResult = NoResult
  /\ adOp = "new"
  /\ adArg = <<>>
  /\ adSupplied = <<>>

(***************************************************************************)
(* Monte Carlo and importance-sampling estimators (monte-carlo.ts,         *)
(* importance-sampling.ts)                                                 *)
(*                                                                         *)
(* A double is a record: nan says it is NaN, otherwise v is its value in   *)
(* thousandths (EstScale), rounded down.  A comparison with NaN is false.  *)
(***************************************************************************)
MaxPaths == 4
MaxStrata == 2

EstScale == 10 * 10 * 10

NaN == [nan |-> TRUE, v |-> 0]

Num(x) == [nan |-> FALSE, v |-> x]

\* a <= b on doubles
LeqF(a, b) == ~a.nan /\ ~b.nan /\ a.v <= b.v

\* floor(sqrt(num/den)) for num >= 0, den > 0: the largest k with k*k*den <= num
FloorSqrt(num, den) ==
  LET c == CeilSqrt(num, den) IN IF c * c * den = num THEN c ELSE c - 1

\* Math.sqrt(num/den) in thousandths; the root of a negative number and of
\* 0/0 is NaN.
SqrtF(num, den) ==
  IF den = 0 \/ num < 0 THEN NaN
  ELSE Num(FloorSqrt(num * EstScale * EstScale, den))

\* Math.sqrt(Math.max(0, num/den)), den > 0
SqrtClampedF(num, den) == SqrtF(Max2(0, num), den)

\* [estimate - 1.96 * stdError, estimate + 1.96 * stdError]
Ci95(estimate, stdError) ==
  IF estimate.nan \/ stdError.nan THEN <<NaN, NaN>>
  ELSE <<Num(estimate.v - (196 * stdError.v) \div 100),
         Num(estimate.v + (196 * stdError.v) \div 100)>>

\* [Math.max(0, estimate - 1.96 * stdError), estimate + 1.96 * stdError]
Ci95Floored(estimate, stdError) ==
  IF estimate.nan \/ stdError.nan THEN <<NaN, NaN>>
  ELSE <<Num(Max2(0, estimate.v - (196 * stdError.v) \div 100)),
         Num(estimate.v + (196 * stdError.v) \div 100)>>

McKinds == {"crude", "antithetic", "stratified", "importance", "joint"}

\* A standard normal draw is modelled by its quantile U = (2r+1)/(2*RGrid),
\* r in 0..RGrid-1; -Z has quantile 1-U.  S_T > K, i.e.
\* S0*exp(drift + vol*Z) > K, is Z above a critical value, i.e. U above the
\* critical quantile crit/CritDen.
RGrid == 2 + 2
CritDen == 2 + 2
McCrits == 1..(CritDen - 1)

\* payoff of quantile (2r+1)/(2*RGrid): S_T > K ? 1 : 0
Payoff(r, crit) == IF (2 * r + 1) * CritDen > crit * 2 * RGrid THEN 1 ELSE 0

\* payoff of the antithetic draw -Z
PayoffAnti(r, crit) == Payoff(RGrid - 1 - r, crit)

\* priceBinaryStratified: U = (s + Math.random()) / nStrata, Z = normInv(U)
PayoffStratum(s, r, nStrata, crit) ==
  IF (2 * RGrid * s + 2 * r + 1) * CritDen > crit * 2 * RGrid * nStrata THEN 1 ELSE 0

\* Likelihood ratios exp(logLR) of one asset, in halves (LRUnit): 1/2 and 1
LRUnit == 1 + 1
LRValues == {1, 2}

\* the assets of the joint-crash estimator
JointAssets == 2

RECURSIVE Power(_, _)
Power(b, e) == IF e = 0 THEN 1 ELSE b * Power(b, e - 1)

RECURSIVE ProdSeq(_)
ProdSeq(s) == IF s = <<>> THEN 1 ELSE Head(s) * ProdSeq(Tail(s))

\* the unit of the accumulated likelihood ratio of an estimator
LRScaleOf(kind) == IF kind = "joint" THEN Power(LRUnit, JointAssets) ELSE LRUnit

NoEstimate == [estimate |-> Num(0), stdError |-> Num(0), ci95 |-> <<Num(0), Num(0)>>]

IdleMC ==
  /\ mcKind = "none"
  /\ mcN = 0
  /\ mcStrata = 0
  /\ mcCrit = 0
  /\ mcI = 0
  /\ mcS = 0
  /\ mcSum = 0
  /\ mcSumSq = 0
  /\ mcStratumEstimates = <<>>
  /\ mcPc = "idle"
  /\ mcResult = NoEstimate

\* A call of an estimator: the accumulators are zeroed.  nPerStratum =
\* floor(nTotal / nStrata) is at least 1; antithetic draws floor(nPaths/2) pairs.
StartEstimator(kind, n, nStrata, crit) ==
  /\ mcPc \in {"idle", "done"}
  /\ kind = "stratified" => n >= nStrata
  /\ kind # "stratified" => nStrata = 1
  /\ kind = "antithetic" => n >= 2
  /\ mcKind' = kind
  /\ mcN' = n
  /\ mcStrata' = nStrata
  /\ mcCrit' = crit
  /\ mcI' = 0
  /\ mcS' = 0
  /\ mcSum' = 0
  /\ mcSumSq' = 0
  /\ mcStratumEstimates' = <<>>
  /\ mcPc' = "running"
  /\ UNCHANGED mcResult
  /\ UNCHANGED notMC

\* the iterations of the estimator's sampling loop
LoopCount(kind, n, nStrata) ==
  CASE kind = "antithetic" -> n \div 2
    [] kind = "stratified" -> n \div nStrata
    [] OTHER -> n

\* priceBinaryContract, one path: sum += payoff; sumSq += payoff * payoff
DrawCrude(r) ==
  /\ mcPc = "running" /\ mcKind = "crude"
  /\ mcI < LoopCount(mcKind, mcN, mcStrata)
  /\ mcSum' = mcSum + Payoff(r, mcCrit)
  /\ mcSumSq' = mcSumSq + Payoff(r, mcCrit) * Payoff(r, mcCrit)
  /\ mcI' = mcI + 1
  /\ UNCHANGED <<mcKind, mcN, mcStrata, mcCrit, mcS, mcStratumEstimates, mcPc, mcResult>>
  /\ UNCHANGED notMC

\* priceBinaryContractAntithetic, one pair: avgPayoff = (payoff1 + payoff2) / 2.
\* mcSum counts in halves, mcSumSq in quarters.
DrawAntithetic(r) ==
  /\ mcPc = "running" /\ mcKind = "antithetic"
  /\ mcI < LoopCount(mcKind, mcN, mcStrata)
  /\ LET pair == Payoff(r, mcCrit) + PayoffAnti(r, mcCrit)
     IN  /\ mcSum' = mcSum + pair
         /\ mcSumSq' = mcSumSq + pair * pair
  /\ mcI' = mcI + 1
  /\ UNCHANGED <<mcKind, mcN, mcStrata, mcCrit, mcS, mcStratumEstimates, mcPc, mcResult>>
  /\ UNCHANGED notMC

\* priceBinaryStratified, one draw of stratum mcS; after the stratum's last
\* draw stratumEstimates.push(stratumSum / nPerStratum) (kept as stratumSum).
DrawStratified(r) ==
  /\ mcPc = "running" /\ mcKind = "stratified"
  /\ mcS < mcStrata
  /\ LET nPer == LoopCount(mcKind, mcN, mcStrata)
         stratumSum == mcSum + PayoffStratum(mcS, r, mcStrata, mcCrit)
     IN  IF mcI + 1 < nPer
         THEN /\ mcSum' = stratumSum
              /\ mcI' = mcI + 1
              /\ UNCHANGED <<mcS, mcStratumEstimates>>
         ELSE /\ mcStratumEstimates' = Append(mcStratumEstimates, stratumSum)
              /\ mcS' = mcS + 1
              /\ mcSum' = 0
              /\ mcI' = 0
  /\ UNCHANGED <<mcKind, mcN, mcStrata, mcCrit, mcSumSq, mcPc, mcResult>>
  /\ UNCHANGED notMC

\* importanceSamplingRareEvent, one path: isEstimate = hit ? LR : 0;
\* sumIS += isEstimate; sumSqIS += isEstimate * isEstimate
DrawImportance(hit, lr) ==
  /\ mcPc = "running" /\ mcKind = "importance"
  /\ mcI < LoopCount(mcKind, mcN, mcStrata)
  /\ LET isEstimate == IF hit THEN lr ELSE 0
     IN  /\ mcSum' = mcSum + isEstimate
         /\ mcSumSq' = mcSumSq + isEstimate * isEstimate
  /\ mcI' = mcI + 1
  /\ UNCHANGED <<mcKind, mcN, mcStrata, mcCrit, mcS, mcStratumEstimates, mcPc, mcResult>>
  /\ UNCHANGED notMC

\* estimateJointCrashProbability, one path: every asset crashes or not and
\* contributes its likelihood ratio; isEstimate = allCrashed ? productLR : 0
DrawJoint(crashed, lrs) ==
  /\ mcPc = "running" /\ mcKind = "joint"
  /\ mcI < LoopCount(mcKind, mcN, mcStrata)
  /\ LET allCrashed == \A i \in 1..JointAssets : crashed[i]
         productLR  == ProdSeq(lrs)
         isEstimate == IF allCrashed THEN productLR ELSE 0
     IN  /\ mcSum' = mcSum + isEstimate
         /\ mcSumSq' = mcSumSq + isEstimate * isEstimate
  /\ mcI' = mcI + 1
  /\ UNCHANGED <<mcKind, mcN, mcStrata, mcCrit, mcS, mcStratumEstimates, mcPc, mcResult>>
  /\ UNCHANGED notMC

\* estimate = sum / n; variance = sumSq / n - estimate^2;
\* stdError = sqrt(variance / n), with sum in units of 1/unit:
\* variance / n = (sumSq * n - sum^2) / (unit^2 * n^3)
MeanEstimate(sum, sumSq, n, unit) ==
  LET estimate == Num((sum * EstScale) \div (unit * n))
      stdError == SqrtF(sumSq * n - sum * sum, unit * unit * n * n * n)
  IN  [estimate |-> estimate, stdError |-> stdError,
       ci95 |-> Ci95(estimate, stdError)]

\* estimateJointCrashProbability: stdError = sqrt(max(0, varIS) / nPaths),
\* ci95 = [max(0, pIS - 1.96 se), pIS + 1.96 se]
JointEstimate(sum, sumSq, n, unit) ==
  LET estimate == Num((sum * EstScale) \div (unit * n))
      stdError == SqrtClampedF(sumSq * n - sum * sum, unit * unit * n * n * n)
  IN  [estimate |-> estimate, stdError |-> stdError,
       ci95 |-> Ci95Floored(estimate, stdError)]

\* priceBinaryStratified: estimate = mean of the stratum estimates h/nPer;
\* stratumVariance = sum((e - estimate)^2) / (nStrata - 1);
\* stdError = sqrt(stratumVariance / nStrata).  With H the sum of the hits h:
\* e - estimate = (nStrata*h - H) / (nStrata*nPer).
StratifiedEstimate(hits, nPer) ==
  LET nStrata  == Len(hits)
      total    == SumSeq(hits)
      estimate == Num((total * EstScale) \div (nPer * nStrata))
      sqDev    == SumSeq([s \in 1..nStrata |->
                    (nStrata * hits[s] - total) * (nStrata * hits[s] - total)])
      stdError == SqrtF(sqDev, nStrata * nStrata * nPer * nPer
                               * (nStrata - 1) * nStrata)
  IN  [estimate |-> estimate, stdError |-> stdError,
       ci95 |-> Ci95(estimate, stdError)]

\* variance / crudeVariance, the ratio the wrong way round
VarianceRatioInverted(sum, sumSq, n) ==
  IF sum * (2 * n - sum) = 0 THEN 0
  ELSE ((sumSq * n - sum * sum) * EstScale) \div (sum * (2 * n - sum))

\* priceBinaryContractAntithetic: crudeVariance / (variance || 0.0001) in
\* thousandths, rounded down, with sum in halves and sumSq in quarters:
\* variance = (sumSq * n - sum^2) / (4 n^2), crudeVariance = estimate *
\* (1 - estimate) = sum * (2n - sum) / (4 n^2)
VarianceReduction(sum, sumSq, n) ==
  IF sumSq * n - sum * sum = 0
  THEN (sum * (2 * n - sum) * 10 * EstScale * EstScale) \div (4 * n * n)
  ELSE (sum * (2 * n - sum) * EstScale) \div (sumSq * n - sum * sum)

\* the result of priceBinaryContractAntithetic over n pairs
AntitheticEstimate(sum, sumSq, n) ==
  LET mean == MeanEstimate(sum, sumSq, n, 2)
  IN  [estimate |-> mean.estimate, stdError |-> mean.stdError,
       ci95 |-> mean.ci95,
       varianceReduction |-> VarianceReduction(sum, sumSq, n)]

\* the result the estimator returns after its loop
EstimatorResult ==
  CASE mcKind = "crude" -> MeanEstimate(mcSum, mcSumSq, mcN, 1)
    [] mcKind = "antithetic" -> AntitheticEstimate(mcSum, mcSumSq, mcN \div 2)
    [] mcKind = "stratified" ->
         StratifiedEstimate(mcStratumEstimates, LoopCount(mcKind, mcN, mcStrata))
    [] mcKind = "importance" -> MeanEstimate(mcSum, mcSumSq, mcN, LRScaleOf(mcKind))
    [] mcKind = "joint" -> JointEstimate(mcSum, mcSumSq, mcN, LRScaleOf(mcKind))

FinishEstimator ==
  /\ mcPc = "running"
  /\ IF mcKind = "stratified" THEN mcS = mcStrata
     ELSE mcI = LoopCount(mcKind, mcN, mcStrata)
  /\ mcResult' = EstimatorResult
  /\ mcPc' = "done"
  /\ UNCHANGED <<mcKind, mcN, mcStrata, mcCrit, mcI, mcS, mcSum, mcSumSq,
                 mcStratumEstimates>>
  /\ UNCHANGED notMC

(***************************************************************************)
(* Particle filter (particle-filter.ts)                                    *)
(*                                                                         *)
(* A particle's state is a logit on an integer grid; a probability is in   *)
(* percent (ProbScale); a weight is a fixed-point number of WScale units,  *)
(* rounded down, so that one unit stands for the rounding error of the     *)
(* double arithmetic.  Logarithms are in eighths of a nat (LogUnit).       *)
(***************************************************************************)
NParticles == 3
MaxUpdates == 2

ProbScale == 10 * 10
WScale == ProbScale * ProbScale
LogUnit == 2 * 2 * 2

\* config.obsNoise in percent (0.1, the trend filter's value) and
\* config.resampleThreshold = ResampleNum / ResampleDen = 0.5
ObsNoise == 5 + 5
ResampleNum == 2 - 1
ResampleDen == 1 + 1

\* sigmoid on the grid -5..5, in percent; beyond the grid it rounds to 0 and 1
SigmoidTable == <<1, 2, 5, 12, 27, 50, 73, 88, 95, 98, 99>>

Sigmoid(x) ==
  IF x < -5 THEN 0 ELSE IF x > 5 THEN ProbScale ELSE SigmoidTable[x + 6]

\* logit(p): p is clamped to [0.0001, 0.9999] (logit -9.2 and 9.2), then
\* log(p / (1 - p)), here the nearest grid point
Logit(p) ==
  IF p <= 0 THEN -9 ELSE IF p >= ProbScale THEN 9
  ELSE CHOOSE x \in -5..5 :
         \A y \in -5..5 :
           \/ Abs(Sigmoid(x) - p) < Abs(Sigmoid(y) - p)
           \/ (Abs(Sigmoid(x) - p) = Abs(Sigmoid(y) - p) /\ x <= y)

\* exp(-f/8) for f = 0..7, in WScale units
ExpFracTable == <<10000, 8825, 7788, 6873, 6065, 5353, 4724, 4169>>

\* x * exp(-q), one factor exp(-1) = 0.3679 at a time
RECURSIVE ExpDecay(_, _)
ExpDecay(x, q) ==
  IF q = 0 \/ x = 0 THEN x ELSE ExpDecay((x * 3679) \div WScale, q - 1)

\* Math.exp(d) for d <= 0 (eighths of a nat), in WScale units; it underflows
\* to 0 (here below about -9.2 nats, in doubles below -745)
ExpFix(d) == ExpDecay(ExpFracTable[((-d) % LogUnit) + 1], (-d) \div LogUnit)

\* the range of logarithms of the non-zero weights
LogRange == 10 * LogUnit

\* <<exp(0), exp(-1/8), ..., exp(-LogRange/8)>>
RECURSIVE ExpTableFrom(_)
ExpTableFrom(d) ==
  IF d > LogRange THEN <<>> ELSE <<ExpFix(-d)>> \o ExpTableFrom(d + 1)

ExpTable == ExpTableFrom(0)

\* the largest d' <= d with exp(d') <= w, for w > 0
RECURSIVE LogBelow(_, _)
LogBelow(w, d) == IF ExpTable[1 - d] <= w THEN d ELSE LogBelow(w, d - 1)

\* Math.log(weight + 1e-300): log(1e-300) = -690.8 for a zero weight,
\* otherwise the logarithm of the weight, rounded down
LogWeight(w) == IF w = 0 THEN -(6908 * LogUnit) \div 10 ELSE LogBelow(w, 0)

\* -0.5 * ((obsValue - prob) / effectiveNoise)^2 with effectiveNoise =
\* obsNoise / sqrt(confidence); confidence in tenths; rounded down.
\* Confidence 0 gives effectiveNoise = Infinity and log-likelihood 0.
LogLikelihood(obsValue, prob, confidence) ==
  -CeilDiv((obsValue - prob) * (obsValue - prob) * confidence * LogUnit,
           2 * 10 * ObsNoise * ObsNoise)

RECURSIVE MaxSeq(_)
MaxSeq(s) == IF Len(s) = 1 THEN s[1] ELSE Max2(Head(s), MaxSeq(Tail(s)))

\* a weight of 1 for every particle
UnitWeight(n) == WScale

\* 1 / nParticles
UniformWeight(n) == WScale \div n

\* initializeParticles: state = logit(prior) + randomNormal() * 0.5
InitializeParticles(prior, spread) ==
  [i \in 1..Len(spread) |->
     [state |-> Logit(prior) + spread[i], weight |-> UniformWeight(Len(spread))]]

\* Math.exp(logWeights[i] - logNorm) with logNorm = maxLog + log(sum of
\* exp(logWeights[k] - maxLog)): exp(lw - maxLog) / sum
NormalisedWeight(e, total) == (e * WScale) \div total

\* update, step 2: log-weights, logSumExp, normalised weights
Reweight(particles, obsValue, confidence) ==
  LET n == Len(particles)
      logWeights == [i \in 1..n |->
                       LogWeight(particles[i].weight)
                       + LogLikelihood(obsValue, Sigmoid(particles[i].state),
                                       confidence)]
      maxLog == MaxSeq(logWeights)
      e == [i \in 1..n |-> ExpFix(logWeights[i] - maxLog)]
      total == SumSeq(e)
  IN  [i \in 1..n |->
         [state |-> particles[i].state, weight |-> NormalisedWeight(e[i], total)]]

Weights(particles) == [i \in 1..Len(particles) |-> particles[i].weight]

\* computeESS() < nParticles * resampleThreshold, with ess = 1 / sum(w^2)
EssBelowThreshold(particles) ==
  LET n == Len(particles)
      sumSq == SumSeq([i \in 1..n |-> particles[i].weight * particles[i].weight])
  IN  IF sumSq = 0 THEN FALSE
      ELSE WScale * WScale * ResampleDen < n * ResampleNum * sumSq

\* getEstimate: sum of sigmoid(state) * weight, in units of 1/(ProbScale*WScale)
GetEstimate(particles) ==
  SumSeq([i \in 1..Len(particles) |->
            Sigmoid(particles[i].state) * particles[i].weight])

\* cumsum[j]: the sum of the first j weights
Cumsum(particles, j) == SumSeq(SubSeq(Weights(particles), 1, j))

\* The offsets u = Math.random() / n = k / (n * WScale): the smallest, the
\* middle and the largest value below 1/n
ResampleOffsets == {0, WScale \div 2, WScale - 1}

\* while (cumsum[j + 1] < target) j++, with target = u + i / n.  Past the
\* last particle cumsum[j + 1] is undefined, the comparison is false and
\* the loop stops with j = n.
RECURSIVE AdvanceIndex(_, _, _, _)
AdvanceIndex(particles, k, i, j) ==
  IF j + 1 <= Len(particles)
     /\ Cumsum(particles, j + 1) * Len(particles) < k + i * WScale
  THEN AdvanceIndex(particles, k, i, j + 1)
  ELSE j

\* a copy that keeps the weight of the particle it copies
ResampledKeepsWeight(particle, n) ==
  [state |-> particle.state, weight |-> particle.weight]

\* newParticles.push({ state: this.particles[j].state, weight: 1 / n })
ResampledParticle(particle, n) ==
  [state |-> particle.state, weight |-> UniformWeight(n)]

\* systematicResample: the new swarm, or threw when particles[j] is read
\* past the end (particles[n].state is a TypeError; this.particles is not
\* assigned)
RECURSIVE ResampleFrom(_, _, _, _, _)
ResampleFrom(particles, k, i, j, newParticles) ==
  IF i = Len(particles) THEN [threw |-> FALSE, particles |-> newParticles]
  ELSE LET j2 == AdvanceIndex(particles, k, i, j)
       IN  IF j2 = Len(particles)
           THEN [threw |-> TRUE, particles |-> particles]
           ELSE ResampleFrom(particles, k, i + 1, j2,
                  Append(newParticles,
                         ResampledParticle(particles[j2 + 1], Len(particles))))

SystematicResample(particles, k) == ResampleFrom(particles, k, 0, 0, <<>>)

\* prior probabilities (percent) and the draws of randomNormal(), in grid steps
Priors == {27, 50}
InitSpreads == [1..NParticles -> {0, 1}]
\* draws in which at most one particle moves by a grid step
StepNoises ==
  {noise \in [1..NParticles -> {0, 1}] :
     Cardinality({i \in 1..NParticles : noise[i] # 0}) <= 1}
\* observations (percent): inside [0, 1], and far outside it
ObsValues == {50, 400}
\* confidence weights (tenths): 0 and the default 1.0
Confidences == {0, 10}

\* new ParticleFilter(prior, config)
InitPF ==
  /\ \E prior \in Priors, spread \in InitSpreads :
       pfParticles = InitializeParticles(prior, spread)
  /\ pfHistory = <<>>
  /\ pfCalls = 0
  /\ pfOp = "new"
  /\ pfPre = <<>>
  /\ pfResample = "none"

\* ParticleFilter.update(observation): propagate, reweight, resample if the
\* effective sample size is low, record the estimate.  pfPre is the swarm as
\* it is when the effective sample size is computed.
UpdateBody(obsValue, confidence, noise) ==
  /\ LET propagated == [i \in 1..Len(pfParticles) |->
                          [state |-> pfParticles[i].state + noise[i],
                           weight |-> pfParticles[i].weight]]
     IN  pfPre' = Reweight(propagated, obsValue, confidence)
  /\ IF EssBelowThreshold(pfPre')
     THEN \E k \in ResampleOffsets : \E r \in {SystematicResample(pfPre', k)} :
            /\ pfParticles' = r.particles
            /\ pfResample' = IF r.threw THEN "threw" ELSE "done"
            /\ pfHistory' = IF r.threw THEN pfHistory
                            ELSE Append(pfHistory, GetEstimate(r.particles))
     ELSE /\ pfParticles' = pfPre'
          /\ pfResample' = "none"
          /\ pfHistory' = Append(pfHistory, GetEstimate(pfPre'))
  /\ pfCalls' = pfCalls + 1
  /\ pfOp' = "update"

UpdateSwarm(obsValue, confidence, noise) ==
  /\ pfCalls < MaxUpdates
  /\ UpdateBody(obsValue, confidence, noise)

Update(obsValue, confidence, noise) ==
  /\ UpdateSwarm(obsValue, confidence, noise)
  /\ UNCHANGED notPF

\* ParticleFilter.reset(prior): a new swarm of new particle objects
ResetBody(prior, spread) ==
  /\ pfParticles' = InitializeParticles(prior, spread)
  /\ pfHistory' = <<>>
  /\ pfCalls' = 0
  /\ pfOp' = "reset"
  /\ pfPre' = <<>>
  /\ pfResample' = "none"

ResetPF(prior, spread) ==
  /\ ResetBody(prior, spread)
  /\ UNCHANGED notPF

(***************************************************************************)
(* Regime HMM (regime.ts)                                                  *)
(*                                                                         *)
(* Returns, emission means and standard deviations are in thousandths      *)
(* (0.001), transition probabilities in percent, state probabilities in    *)
(* WScale units.  A probability of the model is 0 only where the double is *)
(* 0: roundings keep a positive number positive (PosDiv), and Math.exp     *)
(* gives 0 only below its underflow limit.  Logarithms are in eighths of a *)
(* nat, with -Infinity as NegInf.                                          *)
(***************************************************************************)
MaxReturns == 3
MaxRegimeUpdates == 2
MaxIterations == 1

REGIMES == <<"trending_up", "trending_down", "ranging", "volatile">>
NStates == Len(REGIMES)

\* the default transition matrix, and one with zero entries
DefaultTransitionMatrix ==
  << <<90, 2, 5, 3>>, <<2, 90, 5, 3>>, <<10, 10, 75, 5>>, <<10, 10, 15, 65>> >>
BandedTransitionMatrix ==
  << <<50, 50, 0, 0>>, <<0, 50, 50, 0>>, <<0, 0, 50, 50>>, <<50, 0, 0, 50>> >>
TransitionMatrices == {DefaultTransitionMatrix, BandedTransitionMatrix}

DefaultEmissionMeans == <<2, -2, 0, 0>>
DefaultEmissionStds == <<10, 10, 8, 25>>

\* returns: 0, +3% and +100%
ReturnValues == {0, 30, 1000}

\* a / b rounded down, but not to 0 when a > 0
PosDiv(a, b) == IF a = 0 THEN 0 ELSE Max2(1, a \div b)

\* Math.exp(-x) is 0 for x above 745.13 (here in eighths of a nat)
ExpUnderflow == 745 * LogUnit

\* 0.5 * z * z with z = (x - mean) / std, in eighths of a nat, rounded up
HalfZSquared(x, mean, std) ==
  CeilDiv((x - mean) * (x - mean) * LogUnit, 2 * std * std)

\* a parameter that training left NaN (no trained parameter is this low)
NaNParam == -(WScale * WScale)

NegInf == [inf |-> TRUE, nan |-> FALSE, v |-> 0]
Fin(x) == [inf |-> FALSE, nan |-> FALSE, v |-> x]
NaNL == [inf |-> FALSE, nan |-> TRUE, v |-> 0]
AddL(a, b) ==
  IF a.nan \/ b.nan THEN NaNL
  ELSE IF a.inf \/ b.inf THEN NegInf ELSE Fin(a.v + b.v)
\* a > b
GtL(a, b) ==
  IF a.nan \/ b.nan \/ a.inf THEN FALSE ELSE IF b.inf THEN TRUE ELSE a.v > b.v

\* Math.log(p) of a probability in WScale units
LogProb(p) == IF p = 0 THEN NegInf ELSE Fin(LogBelow(p, 0))

\* Math.log(transitionMatrix[i][j]), the entry in percent
LogTransition(entry) ==
  IF entry = NaNParam THEN NaNL ELSE LogProb(entry * ProbScale)

\* Math.log(gaussianPDF(x, mean, std)) =
\* -0.5 z^2 - log(std * sqrt(2 pi)); -Infinity when the exponential underflows
LogGaussianPDF(x, mean, std) ==
  IF mean = NaNParam \/ std = NaNParam THEN NaNL
  ELSE IF HalfZSquared(x, mean, std) > ExpUnderflow THEN NegInf
  ELSE Fin(-HalfZSquared(x, mean, std) - LogBelow((std * 25066) \div 1000, 0))

\* the largest of the logarithms (-Infinity when none is finite)
RECURSIVE MaxFinite(_)
MaxFinite(s) ==
  IF s = <<>> THEN NegInf
  ELSE LET rest == MaxFinite(Tail(s))
       IN  IF GtL(Head(s), rest) THEN Head(s) ELSE rest

\* new RegimeHMM(params): stateProbs = [0.25, 0.25, 0.25, 0.25]
UniformPrior == [j \in 1..NStates |-> Num(WScale \div NStates)]

\* update, step 1: predicted[j] = sum over i of stateProbs[i] * T[i][j]
Predict(stateProbs, matrix) ==
  TupleOf([j \in 1..NStates |->
     IF \E i \in 1..NStates : stateProbs[i].nan \/ matrix[i][j] = NaNParam THEN NaN
     ELSE Num(PosDiv(SumSeq([i \in 1..NStates |-> stateProbs[i].v * matrix[i][j]]),
                     ProbScale))], NStates)

\* update, step 2: updated[j] = predicted[j] * likelihoods[j], each likelihood
\* relative to the largest one (the common factor cancels in the division
\* by sumProb); a likelihood that underflowed is 0
Updated(predicted, logLik) ==
  LET top == MaxFinite(logLik)
  IN  TupleOf([j \in 1..NStates |->
         IF predicted[j].nan \/ logLik[j].nan THEN NaN
         ELSE IF logLik[j].inf THEN Num(0)
         ELSE Num(PosDiv(predicted[j].v * Max2(1, ExpFix(logLik[j].v - top.v)),
                         WScale))], NStates)

\* updated[j] / sumProb, without the guard: 0 / 0 is NaN
Normalise(updated) ==
  LET anyNaN == \E j \in 1..NStates : updated[j].nan
      sumProb == IF anyNaN THEN 0 ELSE SumSeq([j \in 1..NStates |-> updated[j].v])
  IN  TupleOf([j \in 1..NStates |->
         IF anyNaN \/ sumProb = 0 THEN NaN
         ELSE Num(PosDiv(updated[j].v * WScale, sumProb))], NStates)

\* a > b on doubles
GtF(a, b) == ~a.nan /\ ~b.nan /\ a.v > b.v

\* maxIdx = 0; for j = 1..: if (stateProbs[j] > stateProbs[maxIdx]) maxIdx = j
RECURSIVE ArgMaxFrom(_, _, _)
ArgMaxFrom(probs, j, maxIdx) ==
  IF j > Len(probs) THEN maxIdx
  ELSE ArgMaxFrom(probs, j + 1, IF GtF(probs[j], probs[maxIdx]) THEN j ELSE maxIdx)

\* duration: 1 + the number of entries equal to the current regime directly
\* before the last one
RECURSIVE RunLength(_, _, _)
RunLength(history, i, regime) ==
  IF i >= 1 /\ history[i] = regime THEN 1 + RunLength(history, i - 1, regime)
  ELSE 0

\* the emission log-likelihood of every state
LogEmissions(x, means, stds) ==
  TupleOf([s \in 1..NStates |-> LogGaussianPDF(x, means[s], stds[s])], NStates)

\* viterbi, forward pass, one state s at time t: maxProb = -Infinity,
\* maxState = 0; a predecessor replaces them only when strictly better
RECURSIVE BestPrev(_, _, _, _, _, _)
BestPrev(prevV, matrix, s, sPrev, maxProb, maxState) ==
  IF sPrev > NStates THEN [prob |-> maxProb, state |-> maxState]
  ELSE LET prob == AddL(prevV[sPrev], LogTransition(matrix[sPrev][s]))
       IN  IF GtL(prob, maxProb)
           THEN BestPrev(prevV, matrix, s, sPrev + 1, prob, sPrev)
           ELSE BestPrev(prevV, matrix, s, sPrev + 1, maxProb, maxState)

\* V and backtrack for the observations t..T, given V[t - 1]
RECURSIVE ForwardPass(_, _, _, _, _, _, _)
ForwardPass(returns, t, matrix, means, stds, V, backtrack) ==
  IF t > Len(returns) THEN [V |-> V, backtrack |-> backtrack]
  ELSE LET best == TupleOf([s \in 1..NStates |->
                              BestPrev(V[t - 1], matrix, s, 1, NegInf, 1)], NStates)
           emission == LogEmissions(returns[t], means, stds)
           vt == TupleOf([s \in 1..NStates |-> AddL(best[s].prob, emission[s])],
                         NStates)
           bt == TupleOf([s \in 1..NStates |-> best[s].state], NStates)
       IN  ForwardPass(returns, t + 1, matrix, means, stds,
                       Append(V, vt), Append(backtrack, bt))

\* maxIdx = 0; for s = 1..: if (V[T-1][s] > V[T-1][maxIdx]) maxIdx = s
RECURSIVE BestFinal(_, _, _)
BestFinal(row, s, maxIdx) ==
  IF s > Len(row) THEN maxIdx
  ELSE BestFinal(row, s + 1, IF GtL(row[s], row[maxIdx]) THEN s ELSE maxIdx)

\* path[t] = backtrack[t + 1][path[t + 1]], from the last state back
RECURSIVE Backtrack(_, _, _)
Backtrack(backtrack, t, path) ==
  IF t < 1 THEN path
  ELSE Backtrack(backtrack, t - 1, <<backtrack[t + 1][Head(path)]>> \o path)

\* RegimeHMM.viterbi(returns).  With no observation V holds only the
\* initial row, V[T - 1] is V[-1], undefined, and reading V[-1][s] throws.
Viterbi(returns, matrix, means, stds) ==
  IF Len(returns) = 0 THEN [threw |-> TRUE, path |-> <<>>]
  ELSE LET emission == LogEmissions(returns[1], means, stds)
           init == TupleOf([s \in 1..NStates |->
                              AddL(LogProb(WScale \div NStates), emission[s])],
                           NStates)
           fwd == ForwardPass(returns, 2, matrix, means, stds, <<init>>,
                              << TupleOf([s \in 1..NStates |-> 1], NStates) >>)
           T == Len(returns)
           last == BestFinal(fwd.V[T], 2, 1)
           path == Backtrack(fwd.backtrack, T - 1, <<last>>)
       IN  [threw |-> FALSE, path |-> [t \in 1..T |-> REGIMES[path[t]]]]

NoRegimeState ==
  [regime |-> "none", probability |-> Num(0), transitionProbs |-> <<>>,
   duration |-> 0]
NoPath == [threw |-> FALSE, path |-> <<>>]

\* new RegimeHMM(params)
InitHMM ==
  /\ hmmTransitionMatrix \in TransitionMatrices
  /\ hmmEmissionMeans = DefaultEmissionMeans
  /\ hmmEmissionStds = DefaultEmissionStds
  /\ hmmStateProbs = UniformPrior
  /\ hmmHistory = <<>>
  /\ hmmOp = "new"
  /\ hmmArg = <<>>
  /\ hmmResult = NoRegimeState
  /\ hmmPath = NoPath
  /\ hmmIterations = 0

\* the fields of the RegimeHMM
HmmObject ==
  [transitionMatrix |-> hmmTransitionMatrix, emissionMeans |-> hmmEmissionMeans,
   emissionStds |-> hmmEmissionStds, stateProbs |-> hmmStateProbs,
   history |-> hmmHistory]

\* RegimeHMM.update(return_) on the object: predict, multiply by the emission
\* likelihoods, normalise, push the most likely regime, count its duration
UpdateObject(hmm, return_) ==
  LET stateProbs == Normalise(Updated(
                      Predict(hmm.stateProbs, hmm.transitionMatrix),
                      LogEmissions(return_, hmm.emissionMeans, hmm.emissionStds)))
      maxIdx == ArgMaxFrom(stateProbs, 2, 1)
      currentRegime == REGIMES[maxIdx]
  IN  [hmm |-> [hmm EXCEPT !.stateProbs = stateProbs,
                           !.history = Append(hmm.history, currentRegime)],
       state |-> [regime |-> currentRegime,
                  probability |-> stateProbs[maxIdx],
                  transitionProbs |-> hmm.transitionMatrix[maxIdx],
                  duration |-> 1 + RunLength(hmm.history, Len(hmm.history),
                                             currentRegime)]]

\* RegimeHMM.update(return_)
UpdateHMM(return_) ==
  /\ Len(hmmHistory) < MaxRegimeUpdates
  /\ \E r \in {UpdateObject(HmmObject, return_)} :
       /\ hmmStateProbs' = r.hmm.stateProbs
       /\ hmmHistory' = r.hmm.history
       /\ hmmTransitionMatrix' = r.hmm.transitionMatrix
       /\ hmmEmissionMeans' = r.hmm.emissionMeans
       /\ hmmEmissionStds' = r.hmm.emissionStds
       /\ hmmResult' = r.state
  /\ hmmOp' = "update"
  /\ hmmArg' = <<return_>>
  /\ UNCHANGED <<hmmPath, hmmIterations>>
  /\ UNCHANGED notHMM

\* updateBatch: for (const r of returns) states.push(this.update(r))
RECURSIVE UpdateBatchFrom(_, _, _)
UpdateBatchFrom(hmm, returns, states) ==
  IF returns = <<>> THEN [hmm |-> hmm, states |-> states]
  ELSE LET r == UpdateObject(hmm, Head(returns))
       IN  UpdateBatchFrom(r.hmm, Tail(returns), Append(states, r.state))

\* RegimeHMM.updateBatch(returns); hmmResult keeps the last state returned
UpdateBatchHMM(returns) ==
  /\ Len(hmmHistory) + Len(returns) <= MaxRegimeUpdates
  /\ \E r \in {UpdateBatchFrom(HmmObject, returns, <<>>)} :
       /\ hmmStateProbs' = r.hmm.stateProbs
       /\ hmmHistory' = r.hmm.history
       /\ hmmTransitionMatrix' = r.hmm.transitionMatrix
       /\ hmmEmissionMeans' = r.hmm.emissionMeans
       /\ hmmEmissionStds' = r.hmm.emissionStds
       /\ hmmResult' = IF r.states = <<>> THEN hmmResult
                       ELSE r.states[Len(r.states)]
  /\ hmmOp' = "updateBatch"
  /\ hmmArg' = returns
  /\ UNCHANGED <<hmmPath, hmmIterations>>
  /\ UNCHANGED notHMM

\* RegimeHMM.viterbi(returns): reads the parameters, changes nothing
ViterbiHMM(returns) ==
  /\ hmmPath' = Viterbi(returns, hmmTransitionMatrix, hmmEmissionMeans,
                        hmmEmissionStds)
  /\ hmmOp' = "viterbi"
  /\ hmmArg' = returns
  /\ UNCHANGED <<hmmTransitionMatrix, hmmEmissionMeans, hmmEmissionStds,
                 hmmStateProbs, hmmHistory, hmmResult, hmmIterations>>
  /\ UNCHANGED notHMM

\* train: the E-step (forwardBackward) and the M-step (updateEmissionParams,
\* updateTransitionMatrix), all on local arrays and the three parameters

\* forward pass: alpha[0] = 0.25 * likelihood, scaled; alpha[t] = (alpha[t-1]
\* times the transition matrix) * likelihood, scaled
RECURSIVE ForwardAlpha(_, _, _, _)
ForwardAlpha(returns, t, hmm, alpha) ==
  IF t > Len(returns) THEN alpha
  ELSE LET logLik == LogEmissions(returns[t], hmm.emissionMeans, hmm.emissionStds)
           prior == IF t = 1 THEN UniformPrior
                    ELSE Predict(alpha[t - 1], hmm.transitionMatrix)
       IN  ForwardAlpha(returns, t + 1, hmm,
                        Append(alpha, Normalise(Updated(prior, logLik))))

\* backward pass, one row: beta[t][s] = sum over sNext of T[s][sNext] *
\* likelihood(returns[t+1], sNext) * beta[t+1][sNext]
BackwardSum(weighted, matrix) ==
  TupleOf([s \in 1..NStates |->
     IF \E sNext \in 1..NStates :
          weighted[sNext].nan \/ matrix[s][sNext] = NaNParam
     THEN NaN
     ELSE Num(PosDiv(SumSeq([sNext \in 1..NStates |->
                               matrix[s][sNext] * weighted[sNext].v]),
                     ProbScale))], NStates)

\* beta[T-1] = 1 / nStates; the rows before it from the last back, scaled;
\* rows holds beta[t+1..T-1]
RECURSIVE BackwardBeta(_, _, _, _)
BackwardBeta(returns, t, hmm, rows) ==
  IF t < 1 THEN rows
  ELSE LET logLik == LogEmissions(returns[t + 1], hmm.emissionMeans,
                                  hmm.emissionStds)
           row == Normalise(BackwardSum(Updated(Head(rows), logLik),
                                        hmm.transitionMatrix))
       IN  BackwardBeta(returns, t - 1, hmm, <<row>> \o rows)

\* gamma[t][s] = alpha[t][s] * beta[t][s], scaled to sum 1
GammaRow(alphaRow, betaRow) ==
  Normalise(TupleOf([s \in 1..NStates |->
     IF alphaRow[s].nan \/ betaRow[s].nan THEN NaN
     ELSE Num(PosDiv(alphaRow[s].v * betaRow[s].v, WScale))], NStates))

\* forwardBackward(returns): one gamma row per observation, none for T = 0
ForwardBackward(returns, hmm) ==
  LET T == Len(returns)
      alpha == ForwardAlpha(returns, 1, hmm, <<>>)
      beta == IF T = 0 THEN <<>>
              ELSE BackwardBeta(returns, T - 1, hmm, <<UniformPrior>>)
  IN  TupleOf([t \in 1..T |-> GammaRow(alpha[t], beta[t])], T)

GammaHasNaN(gamma) ==
  \E t \in 1..Len(gamma) : \E s \in 1..NStates : gamma[t][s].nan

\* updateEmissionParams, the mean of state s: sumGammaReturn / sumGamma
\* (0 / 0 with no observation)
TrainedMean(returns, gamma, s) ==
  LET sumGamma == SumSeq([t \in 1..Len(returns) |-> gamma[t][s].v])
      sumGammaReturn == SumSeq([t \in 1..Len(returns) |->
                                  gamma[t][s].v * returns[t]])
  IN  IF GammaHasNaN(gamma) \/ sumGamma = 0 THEN NaNParam
      ELSE sumGammaReturn \div sumGamma

\* updateEmissionParams, the std of state s around the new mean:
\* sqrt(sumGammaVar / sumGamma + 0.0001), the variance in millionths
TrainedStd(returns, gamma, s, mean) ==
  LET sumGamma == SumSeq([t \in 1..Len(returns) |-> gamma[t][s].v])
      sumGammaVar == SumSeq([t \in 1..Len(returns) |->
                       gamma[t][s].v * (returns[t] - mean) * (returns[t] - mean)])
  IN  IF mean = NaNParam THEN NaNParam
      ELSE FloorSqrt(sumGammaVar \div sumGamma + 10 * 10, 1)

\* updateTransitionMatrix, row i: sumXi[j] / (sumGammaI + 0.0001), then the
\* row divided by its sum (0 / 0 when every sumXi[j] is 0, as for T <= 1)
TrainedRow(gamma, i) ==
  LET T == Len(gamma)
      sumXi == TupleOf([j \in 1..NStates |->
                 SumSeq([t \in 1..(T - 1) |->
                           PosDiv(gamma[t][i].v * gamma[t + 1][j].v, WScale)])],
                 NStates)
      rowSum == SumSeq(sumXi)
  IN  TupleOf([j \in 1..NStates |->
         IF GammaHasNaN(gamma) \/ rowSum = 0 THEN NaNParam
         ELSE PosDiv(sumXi[j] * ProbScale, rowSum)], NStates)

\* one iteration of train: E-step, then the M-step on the parameters
TrainIteration(hmm, returns) ==
  LET gamma == ForwardBackward(returns, hmm)
      means == TupleOf([s \in 1..NStates |-> TrainedMean(returns, gamma, s)],
                       NStates)
      stds == TupleOf([s \in 1..NStates |->
                         TrainedStd(returns, gamma, s, means[s])], NStates)
      matrix == TupleOf([i \in 1..NStates |-> TrainedRow(gamma, i)], NStates)
  IN  [hmm EXCEPT !.emissionMeans = means, !.emissionStds = stds,
                  !.transitionMatrix = matrix]

RECURSIVE TrainFrom(_, _, _)
TrainFrom(hmm, returns, nIterations) ==
  IF nIterations = 0 THEN hmm
  ELSE TrainFrom(TrainIteration(hmm, returns), returns, nIterations - 1)

\* a train whose forward pass ran on the object's own belief and history
TrainOnBelief(hmm, returns, nIterations) ==
  LET trained == TrainFrom(hmm, returns, nIterations)
      gamma == ForwardBackward(returns, hmm)
  IN  IF nIterations = 0 \/ gamma = <<>> THEN trained
      ELSE [trained EXCEPT !.stateProbs = gamma[Len(gamma)], !.history = <<>>]

\* RegimeHMM.train(returns, nIterations) on the object
Train(hmm, returns, nIterations) == TrainFrom(hmm, returns, nIterations)

\* RegimeHMM.train(returns, nIterations); hmmIterations counts the
\* iterations run on this object
TrainBody(returns, nIterations) ==
  /\ hmmIterations + nIterations <= MaxIterations
  /\ \E r \in {Train(HmmObject, returns, nIterations)} :
       /\ hmmStateProbs' = r.stateProbs
       /\ hmmHistory' = r.history
       /\ hmmTransitionMatrix' = r.transitionMatrix
       /\ hmmEmissionMeans' = r.emissionMeans
       /\ hmmEmissionStds' = r.emissionStds
  /\ hmmIterations' = hmmIterations + nIterations
  /\ hmmOp' = "train"
  /\ hmmArg' = returns
  /\ UNCHANGED <<hmmResult, hmmPath>>

TrainHMM(returns, nIterations) ==
  /\ TrainBody(returns, nIterations)
  /\ UNCHANGED notHMM

\* RegimeHMM.reset()
ResetHMM ==
  /\ hmmStateProbs' = UniformPrior
  /\ hmmHistory' = <<>>
  /\ hmmOp' = "reset"
  /\ hmmArg' = <<>>
  /\ UNCHANGED <<hmmTransitionMatrix, hmmEmissionMeans, hmmEmissionStds,
                 hmmResult, hmmPath, hmmIterations>>
  /\ UNCHANGED notHMM

(***************************************************************************)
(* Matrix decompositions: the copulas' cholesky and sampleGaussianCopula   *)
(* (demo.ts), the anomaly module's invertMatrix (anomaly.ts)               *)
(*                                                                         *)
(* The matrices are 2 x 2 with integer entries.  The Cholesky factor is in *)
(* thousandths (MatScale), rounded down; the inversion computes in exact   *)
(* fractions.                                                              *)
(***************************************************************************)
MaxEntry == 2
MaxCopulaSamples == 1

MatDim == 2
MatScale == 10 * 10 * 10

MatEntries == (-MaxEntry)..MaxEntry
Matrices == [1..MatDim -> [1..MatDim -> MatEntries]]

\* a quotient by 1e-10, beyond the range of the fixed-point numbers
Huge == 30 * MatScale

\* (num / MatScale) / (den || 1e-10), in thousandths: a zero divisor is
\* replaced by 1e-10
DivOrTiny(num, den) ==
  IF den # 0 THEN (num * MatScale) \div den
  ELSE IF num = 0 THEN 0 ELSE IF num > 0 THEN Huge ELSE -Huge

\* Math.sqrt(Math.max(0, x)), x in MatScale^2 units, in thousandths
SqrtMax0(x) == FloorSqrt(Max2(0, x), 1)

\* cholesky(A) for n = 2: L[0][0], L[1][0], L[1][1] in the order of the
\* loops; the function has no failure result
Cholesky(A) ==
  LET l11 == SqrtMax0(A[1][1] * MatScale * MatScale)
      l21 == DivOrTiny(A[2][1] * MatScale, l11)
      l22 == SqrtMax0(A[2][2] * MatScale * MatScale - l21 * l21)
  IN  [isNull |-> FALSE, L |-> << <<l11, 0>>, <<l21, l22>> >>]

\* normalCDF at the nearest whole standard deviation, in percent
NormalCDFTable == <<0, 2, 16, 50, 84, 98, 100>>

NormalCDF(x) ==
  LET z == (x + MatScale \div 2) \div MatScale
  IN  NormalCDFTable[Max2(-3, Min2(3, z)) + 4]

\* the draws of randomNormal(): one standard deviation down or up
NormalDraws == {-1, 1}

\* sampleGaussianCopula, one sample: X[j] = normalCDF(sum over k <= j of
\* L[j][k] * Z[k])
CopulaSample(L, Z) ==
  TupleOf([j \in 1..MatDim |->
             NormalCDF(SumSeq([k \in 1..j |-> L[j][k] * Z[k]]))], MatDim)

\* sampleGaussianCopula(n, d, corrMatrix): L = cholesky(corrMatrix), then n
\* samples
SampleGaussianCopulaResult(corrMatrix, draws) ==
  LET L == Cholesky(corrMatrix).L
  IN  TupleOf([i \in 1..Len(draws) |-> CopulaSample(L, draws[i])], Len(draws))

RECURSIVE Gcd(_, _)
Gcd(a, b) == IF b = 0 THEN a ELSE Gcd(b, a % b)

\* the fraction n / d in lowest terms with a positive denominator
Frac(n, d) ==
  LET g == Gcd(Abs(n), Abs(d))
      s == IF d < 0 THEN -1 ELSE 1
  IN  [n |-> (s * n) \div g, d |-> (s * d) \div g]

FMul(a, b) == Frac(a.n * b.n, a.d * b.d)
FSub(a, b) == Frac(a.n * b.d - b.n * a.d, a.d * b.d)
FDiv(a, b) == Frac(a.n * b.d, a.d * b.n)
\* Math.abs(a) > Math.abs(b)
FAbsGt(a, b) == Abs(a.n) * b.d > Abs(b.n) * a.d

\* the augmented matrix [M | I]
Augmented(m) ==
  LET n == Len(m)
  IN  TupleOf([i \in 1..n |->
        TupleOf([j \in 1..(2 * n) |->
                   IF j <= n THEN Frac(m[i][j], 1)
                   ELSE IF j - n = i THEN Frac(1, 1) ELSE Frac(0, 1)], 2 * n)], n)

\* maxRow = i; for k = i+1..: if (|aug[k][i]| > |aug[maxRow][i]|) maxRow = k
RECURSIVE PivotRow(_, _, _, _)
PivotRow(aug, i, k, maxRow) ==
  IF k > Len(aug) THEN maxRow
  ELSE PivotRow(aug, i, k + 1,
                IF FAbsGt(aug[k][i], aug[maxRow][i]) THEN k ELSE maxRow)

NullMatrix == [isNull |-> TRUE, inverse |-> <<>>]

\* Gauss-Jordan elimination from column i on.  |aug[i][i]| < 1e-10 is a
\* zero pivot: a pivot that is zero in exact arithmetic is a rounding error
\* in doubles, far below 1e-10, and a non-zero pivot of these matrices is
\* far above it.
RECURSIVE GaussJordan(_, _)
GaussJordan(aug, i) ==
  LET n == Len(aug)
  IN  IF i > n
      THEN [isNull |-> FALSE,
            inverse |-> TupleOf([r \in 1..n |-> SubSeq(aug[r], n + 1, 2 * n)], n)]
      ELSE LET maxRow == PivotRow(aug, i, i + 1, i)
               swapped == TupleOf([r \in 1..n |->
                            IF r = i THEN aug[maxRow]
                            ELSE IF r = maxRow THEN aug[i] ELSE aug[r]], n)
           IN  IF swapped[i][i].n = 0 THEN NullMatrix
               ELSE LET scale == swapped[i][i]
                        pivotRow == TupleOf([j \in 1..(2 * n) |->
                                      FDiv(swapped[i][j], scale)], 2 * n)
                        eliminated == TupleOf([k \in 1..n |->
                          IF k = i THEN pivotRow
                          ELSE TupleOf([j \in 1..(2 * n) |->
                                 FSub(swapped[k][j],
                                      FMul(swapped[k][i], pivotRow[j]))], 2 * n)], n)
                    IN  GaussJordan(eliminated, i + 1)

\* invertMatrix(m)
InvertMatrix(m) == GaussJordan(Augmented(m), 1)

NoFactor == [isNull |-> FALSE, L |-> <<>>]
NoInverse == [isNull |-> FALSE, inverse |-> <<>>]

\* a matrix handed to the decompositions
InitMat ==
  /\ matA \in Matrices
  /\ matOp = "none"
  /\ matCholesky = NoFactor
  /\ matInverse = NoInverse
  /\ matSamples = <<>>

\* cholesky(matA)
CholeskyCall ==
  /\ matCholesky' = Cholesky(matA)
  /\ matOp' = "cholesky"
  /\ UNCHANGED <<matA, matInverse, matSamples>>
  /\ UNCHANGED notMat

\* invertMatrix(matA)
InvertMatrixCall ==
  /\ matInverse' = InvertMatrix(matA)
  /\ matOp' = "invertMatrix"
  /\ UNCHANGED <<matA, matCholesky, matSamples>>
  /\ UNCHANGED notMat

\* sampleGaussianCopula(n, 2, matA), n = Len(draws)
SampleGaussianCopula(draws) ==
  /\ matSamples' = SampleGaussianCopulaResult(matA, draws)
  /\ matOp' = "sampleGaussianCopula"
  /\ UNCHANGED <<matA, matCholesky, matInverse>>
  /\ UNCHANGED notMat

(***************************************************************************)
(* MultiAssetParticleFilter (particle-filter.ts)                           *)
(*                                                                         *)
(* filters maps an asset name to its ParticleFilter: the instance (id, in  *)
(* order of construction), its particles and its estimate history.         *)
(***************************************************************************)
Assets == {"BTC", "ETH"}

\* new Map()
NoFilters == [asset \in {} |-> 0]

\* the draws of randomNormal() for this component: at construction the
\* first particle a grid step above the others, in update no movement
FirstUp == [i \in 1..NParticles |-> IF i = 1 THEN 1 ELSE 0]
NoNoise == [i \in 1..NParticles |-> 0]

\* new ParticleFilter(priorProb, this.config), the id-th instance constructed
NewFilter(id, prior, spread) ==
  [id |-> id,
   particles |-> TupleOf(InitializeParticles(prior, spread), Len(spread)),
   history |-> <<>>]

\* getFilter always constructing: this.filters.set(asset, new ParticleFilter)
FiltersWithFresh(filters, asset, id, prior, spread) ==
  [a \in DOMAIN filters \cup {asset} |->
     IF a = asset THEN NewFilter(id, prior, spread) ELSE filters[a]]

\* getFilter: if (!this.filters.has(asset)) this.filters.set(asset, new
\* ParticleFilter(priorProb, this.config)); the map afterwards
FiltersWith(filters, asset, id, prior, spread) ==
  IF asset \in DOMAIN filters THEN filters
  ELSE [a \in DOMAIN filters \cup {asset} |->
          IF a = asset THEN NewFilter(id, prior, spread) ELSE filters[a]]

\* the number of updates run on all filters
RECURSIVE UpdatesRun(_, _)
UpdatesRun(filters, assets) ==
  IF assets = {} THEN 0
  ELSE LET a == CHOOSE x \in assets : TRUE
       IN  Len(filters[a].history) + UpdatesRun(filters, assets \ {a})

\* new MultiAssetParticleFilter(config)
InitMAF ==
  /\ mafFilters = NoFilters
  /\ mafCreated = 0
  /\ mafMentioned = {}
  /\ mafOp = "new"
  /\ mafArg = ""
  /\ mafReturned = 0

\* getFilter(asset, priorProb): mafReturned is the instance returned
GetFilter(asset, prior, spread) ==
  /\ mafFilters' = FiltersWith(mafFilters, asset, mafCreated + 1, prior, spread)
  /\ mafCreated' = IF asset \in DOMAIN mafFilters THEN mafCreated
                   ELSE mafCreated + 1
  /\ mafReturned' = mafFilters'[asset].id
  /\ mafMentioned' = mafMentioned \cup {asset}
  /\ mafOp' = "getFilter"
  /\ mafArg' = asset
  /\ UNCHANGED notMAF

\* update(asset, observation): getFilter(asset) with the default prior 0.5,
\* then ParticleFilter.update on it
UpdateAsset(asset, spread, obsValue, confidence, noise) ==
  /\ UpdatesRun(mafFilters, DOMAIN mafFilters) < MaxUpdates
  /\ \E filters \in {FiltersWith(mafFilters, asset, mafCreated + 1, 50, spread)} :
     \E pre \in {TupleOf(Reweight(
                   [i \in 1..NParticles |->
                      [state |-> filters[asset].particles[i].state + noise[i],
                       weight |-> filters[asset].particles[i].weight]],
                   obsValue, confidence), NParticles)} :
       IF EssBelowThreshold(pre)
       THEN \E k \in ResampleOffsets : \E r \in {SystematicResample(pre, k)} :
              mafFilters' =
                [filters EXCEPT
                   ![asset].particles = r.particles,
                   ![asset].history =
                      IF r.threw THEN @ ELSE Append(@, GetEstimate(r.particles))]
       ELSE mafFilters' =
              [filters EXCEPT ![asset].particles = pre,
                              ![asset].history = Append(@, GetEstimate(pre))]
  /\ mafCreated' = IF asset \in DOMAIN mafFilters THEN mafCreated
                   ELSE mafCreated + 1
  /\ mafMentioned' = mafMentioned \cup {asset}
  /\ mafOp' = "update"
  /\ mafArg' = asset
  /\ UNCHANGED mafReturned
  /\ UNCHANGED notMAF

(***************************************************************************)
(* Time series (time-series.ts): doubleExponentialSmoothing and forecast   *)
(*                                                                         *)
(* The numbers are binary floating-point numbers with MantissaBits         *)
(* significant bits instead of the 53 of a double, rounded to nearest,     *)
(* ties to even, after every operation.  A number is held as a multiple of *)
(* 2^-FracBits, the smallest difference the format has.                    *)
(***************************************************************************)
MaxLevel == 3
MaxSeries == 3
MaxAhead == 2

MantissaBits == 7
FracBits == 12

FlUnit == Power(2, FracBits)

\* num / den rounded to the nearest integer, ties to even (num >= 0, den > 0)
RoundHalfEven(num, den) ==
  LET q == num \div den
      r == num - q * den
  IN  IF 2 * r < den THEN q
      ELSE IF 2 * r > den THEN q + 1
      ELSE IF q % 2 = 0 THEN q ELSE q + 1

\* the spacing of the format at the magnitude a / den
RECURSIVE UlpAt(_, _, _)
UlpAt(a, den, ulp) ==
  IF a < ulp * Power(2, MantissaBits) * den THEN ulp ELSE UlpAt(a, den, 2 * ulp)

\* the number of the format nearest to num / den (den > 0)
RoundFloat(num, den) ==
  LET a == Abs(num)
      ulp == UlpAt(a, den, 1)
      m == RoundHalfEven(a, den * ulp) * ulp
  IN  IF num < 0 THEN -m ELSE m

\* the literal n / d
Fl(n, d) == RoundFloat(n * FlUnit, d)
FlAdd(a, b) == RoundFloat(a + b, 1)
FlSub(a, b) == RoundFloat(a - b, 1)
FlMul(a, b) == RoundFloat(a * b, FlUnit)
FlDiv(a, b) == RoundFloat(a * FlUnit, b)
\* Math.sqrt of a number >= 0 (the root cut to the grid, then rounded)
FlSqrt(a) == RoundFloat(FloorSqrt(a * FlUnit, 1), 1)

\* doubleExponentialSmoothing from index i on; level, trend and fitted hold
\* the entries before it
RECURSIVE Smooth(_, _, _, _, _, _, _)
Smooth(values, i, alpha, beta, level, trend, fitted) ==
  IF i > Len(values) THEN [level |-> level, trend |-> trend, fitted |-> fitted]
  ELSE LET prevLevel == level[i - 1]
           prevTrend == trend[i - 1]
           newLevel == FlAdd(FlMul(alpha, values[i]),
                             FlMul(FlSub(Fl(1, 1), alpha),
                                   FlAdd(prevLevel, prevTrend)))
           newTrend == FlAdd(FlMul(beta, FlSub(newLevel, prevLevel)),
                             FlMul(FlSub(Fl(1, 1), beta), prevTrend))
       IN  Smooth(values, i + 1, alpha, beta, Append(level, newLevel),
                  Append(trend, newTrend),
                  Append(fitted, FlAdd(prevLevel, prevTrend)))

\* doubleExponentialSmoothing(values, alpha, beta), at least two values
DoubleExponentialSmoothing(values, alpha, beta) ==
  Smooth(values, 2, alpha, beta, <<values[1]>>,
         <<FlSub(values[2], values[1])>>, <<values[1]>>)

\* residuals.reduce((s, r) => s + f(r), 0), for f(r) = r * r or Math.abs(r)
RECURSIVE ReduceSum(_, _, _)
ReduceSum(residuals, squared, s) ==
  IF residuals = <<>> THEN s
  ELSE LET r == Head(residuals)
       IN  ReduceSum(Tail(residuals), squared,
                     FlAdd(s, IF squared THEN FlMul(r, r) ELSE Abs(r)))

\* forecast(values, nAhead, alpha, beta), at least two values
Forecast(values, nAhead, alpha, beta) ==
  LET n == Len(values)
      des == DoubleExponentialSmoothing(values, alpha, beta)
      lastLevel == des.level[n]
      lastTrend == des.trend[n]
      forecasts == TupleOf([h \in 1..nAhead |->
                              FlAdd(lastLevel, FlMul(Fl(h, 1), lastTrend))], nAhead)
      residuals == TupleOf([i \in 1..(n - 1) |->
                              FlSub(values[i + 1], des.fitted[i + 1])], n - 1)
      mse == FlDiv(ReduceSum(residuals, TRUE, 0), Fl(n - 1, 1))
      rmse == FlSqrt(mse)
      mae == FlDiv(ReduceSum(residuals, FALSE, 0), Fl(n - 1, 1))
      se == TupleOf([h \in 1..nAhead |->
                       FlMul(rmse, FlSqrt(FlAdd(Fl(1, 1),
                                                FlMul(Fl(h - 1, 1), Fl(1, 10)))))],
                    nAhead)
  IN  [called |-> TRUE,
       forecast |-> forecasts,
       ci95Upper |-> TupleOf([h \in 1..nAhead |->
                       FlAdd(forecasts[h], FlMul(Fl(196, 100), se[h]))], nAhead),
       ci95Lower |-> TupleOf([h \in 1..nAhead |->
                       FlSub(forecasts[h], FlMul(Fl(196, 100), se[h]))], nAhead),
       mse |-> mse,
       mae |-> mae]

\* the series: whole numbers 1..MaxLevel, two to MaxSeries of them
SeriesValues == {Fl(c, 1) : c \in 1..MaxLevel}
Series ==
  {values \in SeqsUpTo(SeriesValues, MaxSeries) : Len(values) >= 2}
\* smoothing parameters in [0, 1], in tenths
Alphas == {Fl(k, 10) : k \in {0, 2, 3, 5, 10}}
Betas == {Fl(k, 10) : k \in {0, 1, 5, 10}}

NoCall == [called |-> FALSE]

\* the arguments of a call of forecast
InitForecast ==
  /\ fnName = "forecast"
  /\ fnArgs \in [values : Series, nAhead : 0..MaxAhead, alpha : Alphas,
                 beta : Betas]
  /\ fnResult = NoCall

\* forecast(values, nAhead, alpha, beta)
ForecastCall ==
  /\ fnName = "forecast"
  /\ ~fnResult.called
  /\ fnResult' = Forecast(fnArgs.values, fnArgs.nAhead, fnArgs.alpha, fnArgs.beta)
  /\ UNCHANGED <<fnName, fnArgs>>
  /\ UNCHANGED notFn

(***************************************************************************)
(* ParticleFilter.getCredibleInterval (particle-filter.ts)                 *)
(*                                                                         *)
(* alpha is in WScale units, like the weights.                             *)
(***************************************************************************)
\* alpha = 0.05 (the default) and 0.5
IntervalAlphas == {5 * ProbScale, 50 * ProbScale}

\* [...].sort((a, b) => a.prob - b.prob): a stable sort by probability
RECURSIVE InsertByProb(_, _)
InsertByProb(sorted, s) ==
  IF sorted = <<>> THEN <<s>>
  ELSE IF s.prob < Head(sorted).prob THEN <<s>> \o sorted
  ELSE <<Head(sorted)>> \o InsertByProb(Tail(sorted), s)

RECURSIVE SortByProb(_)
SortByProb(entries) ==
  IF entries = <<>> THEN <<>>
  ELSE InsertByProb(SortByProb(SubSeq(entries, 1, Len(entries) - 1)),
                    entries[Len(entries)])

\* particles.map(p => ({ prob: sigmoid(p.state), weight: p.weight })), sorted
SortedProbs(particles) ==
  SortByProb([i \in 1..Len(particles) |->
                [prob |-> Sigmoid(particles[i].state),
                 weight |-> particles[i].weight]])

\* for (const s of sorted): cumWeight += s.weight; lower is assigned while
\* it still equals sorted[0].prob; upper is assigned once, before the break
RECURSIVE IntervalLoop(_, _, _, _, _, _)
IntervalLoop(sorted, i, cumWeight, lower, upper, alpha) ==
  IF i > Len(sorted) THEN [called |-> TRUE, lower |-> lower, upper |-> upper]
  ELSE LET cum == cumWeight + sorted[i].weight
           lower2 == IF 2 * cum >= alpha /\ lower = sorted[1].prob
                     THEN sorted[i].prob ELSE lower
       IN  IF 2 * cum >= 2 * WScale - alpha
           THEN [called |-> TRUE, lower |-> lower2, upper |-> sorted[i].prob]
           ELSE IntervalLoop(sorted, i + 1, cum, lower2, upper, alpha)

\* getCredibleInterval(alpha) = [lower, upper]
GetCredibleInterval(particles, alpha) ==
  LET sorted == SortedProbs(particles)
  IN  IntervalLoop(sorted, 1, 0, sorted[1].prob, sorted[Len(sorted)].prob, alpha)

\* a call of getCredibleInterval on the filter as it is
GetCredibleIntervalCall(alpha) ==
  /\ fnName' = "getCredibleInterval"
  /\ fnArgs' = [alpha |-> alpha, particles |-> pfParticles]
  /\ fnResult' = GetCredibleInterval(pfParticles, alpha)
  /\ UNCHANGED notFn

(***************************************************************************)
(* calculateVaRCVaR (monte-carlo.ts), on the floating-point numbers of the *)
(* time series section                                                     *)
(***************************************************************************)
MaxTail == 3

\* let sumTail = 0; for (i = 0; i <= idx; i++) sumTail += sorted[i]
RECURSIVE SumTail(_, _)
SumTail(sorted, last) ==
  IF last = 0 THEN 0 ELSE FlAdd(SumTail(sorted, last - 1), sorted[last])

\* calculateVaRCVaR(returns, confidence); idx counts from 0.  Past the end
\* sorted[idx] is undefined and both results are NaN.
CalculateVaRCVaR(returns, confidence) ==
  LET sorted == SortAsc(returns)
      n == Len(sorted)
      idx == FlMul(Fl(n, 1), FlSub(Fl(1, 1), confidence)) \div FlUnit
  IN  IF idx >= n
      THEN [called |-> TRUE, idx |-> idx, var |-> NaN, cvar |-> NaN]
      ELSE [called |-> TRUE, idx |-> idx,
            var |-> Num(-sorted[idx + 1]),
            cvar |-> Num(FlDiv(-SumTail(sorted, idx + 1), Fl(idx + 1, 1)))]

\* returns of -10%, 10% and 30%, one to MaxTail of them
TailReturns ==
  {returns \in SeqsUpTo({Fl(-1, 10), Fl(1, 10), Fl(3, 10)}, MaxTail) :
     returns # <<>>}
\* confidence levels in (0, 1]: 2^-8, 0.2, 0.5, the default 0.95 and 1
ConfidenceLevels == {Fl(1, 256), Fl(2, 10), Fl(1, 2), Fl(95, 100), Fl(1, 1)}

\* the arguments of a call of calculateVaRCVaR
InitVaR ==
  /\ fnName = "calculateVaRCVaR"
  /\ fnArgs \in [returns : TailReturns, confidence : ConfidenceLevels]
  /\ fnResult = NoCall

\* calculateVaRCVaR(returns, confidence)
CalculateVaRCVaRCall ==
  /\ fnName = "calculateVaRCVaR"
  /\ ~fnResult.called
  /\ fnResult' = CalculateVaRCVaR(fnArgs.returns, fnArgs.confidence)
  /\ UNCHANGED <<fnName, fnArgs>>
  /\ UNCHANGED notFn

(***************************************************************************)
(* simulateCorrelatedOutcomes (demo.ts)                                    *)
(*                                                                         *)
(* A copula coordinate is a double in percent, or NaN (what the samplers   *)
(* return for a matrix that has no Cholesky factor).  A frequency          *)
(* count / nSamples is an exact fraction.                                  *)
(***************************************************************************)
MaxAssets == 2
MaxSamples == 2

\* a test that also takes a coordinate equal to the probability as up
UpOrEqual(u, probability) ==
  IF ~u.nan /\ u.v <= probability THEN 1 ELSE 0

\* const up = u[j] < probabilities[j] ? 1 : 0
Up(u, probability) ==
  IF ~u.nan /\ u.v < probability THEN 1 ELSE 0

\* the number of samples whose flag is set
CountSamples(flags) == Cardinality({i \in 1..Len(flags) : flags[i]})

\* simulateCorrelatedOutcomes, from the copula sample U on: the outcomes
\* and the joint frequencies
SimulateCorrelatedOutcomes(probabilities, U, nSamples) ==
  LET d == Len(probabilities)
      outcomes == TupleOf([i \in 1..Len(U) |->
                    TupleOf([j \in 1..d |-> Up(U[i][j], probabilities[j])], d)],
                    Len(U))
      thisAllUp == [i \in 1..Len(U) |-> \A j \in 1..d : outcomes[i][j] # 0]
      thisAllDown == [i \in 1..Len(U) |-> \A j \in 1..d : outcomes[i][j] # 1]
      thisAnyUp == [i \in 1..Len(U) |-> \E j \in 1..d : outcomes[i][j] = 1]
      thisAnyDown == [i \in 1..Len(U) |-> \E j \in 1..d : outcomes[i][j] = 0]
  IN  [called |-> TRUE,
       outcomes |-> outcomes,
       allUp |-> Frac(CountSamples(thisAllUp), nSamples),
       allDown |-> Frac(CountSamples(thisAllDown), nSamples),
       anyUp |-> Frac(CountSamples(thisAnyUp), nSamples),
       anyDown |-> Frac(CountSamples(thisAnyDown), nSamples)]

\* marginal probabilities (percent) of one to MaxAssets assets
MarginalProbs == {0, 70}
\* copula coordinates: NaN, 0.2 and 0.7
Coordinates == {NaN, Num(20), Num(70)}

\* the arguments of a call of simulateCorrelatedOutcomes and the sample the
\* copula returns: nSamples rows of d coordinates
InitOutcomes ==
  /\ fnName = "simulateCorrelatedOutcomes"
  /\ \E d \in 1..MaxAssets, nSamples \in 1..MaxSamples :
       fnArgs \in [probabilities : [1..d -> MarginalProbs],
                   U : [1..nSamples -> [1..d -> Coordinates]],
                   nSamples : {nSamples}]
  /\ fnResult = NoCall

\* simulateCorrelatedOutcomes(probabilities, corrMatrix, copula, params, nSamples)
SimulateCorrelatedOutcomesCall ==
  /\ fnName = "simulateCorrelatedOutcomes"
  /\ ~fnResult.called
  /\ fnResult' = SimulateCorrelatedOutcomes(fnArgs.probabilities, fnArgs.U,
                                            fnArgs.nSamples)
  /\ UNCHANGED <<fnName, fnArgs>>
  /\ UNCHANGED notFn

(***************************************************************************)
(* TrendProbabilityFilter (particle-filter.ts): a ParticleFilter with       *)
(* obsNoise 0.1.  The pseudo-observation is in percent, like obsValue.     *)
(***************************************************************************)
\* velocities below, inside and above the nominal range -2..+3
Velocities == {-3, 0, 4}
\* mention counts 0 and 99999
MentionCounts == {0, 10 * WScale - 1}

\* Math.log10(x) for a power of ten x
RECURSIVE Log10(_)
Log10(x) == IF x < 10 THEN 0 ELSE 1 + Log10(x \div 10)

\* updateWithMetrics: the observation made of the metrics
ObservedProb(velocity, mentions, crossPlatform, earlySignal) ==
  LET base == ((velocity + 2) * ProbScale) \div 5
      crossed == IF crossPlatform THEN Min2(ProbScale, base + 15) ELSE base
      early == IF earlySignal THEN Min2(ProbScale, crossed + 10) ELSE crossed
      mentionBoost == Min2(20, (Log10(mentions + 1) * ProbScale) \div 20)
  IN  Min2(ProbScale, early + mentionBoost)

\* new TrendProbabilityFilter(): prior 0.1
InitTrend ==
  /\ \E spread \in InitSpreads : pfParticles = InitializeParticles(10, spread)
  /\ pfHistory = <<>>
  /\ pfCalls = 0
  /\ pfOp = "new"
  /\ pfPre = <<>>
  /\ pfResample = "none"
  /\ fnName = "new TrendProbabilityFilter"
  /\ fnArgs = [velocityHistory |-> <<>>, mentionHistory |-> <<>>]
  /\ fnResult = NoCall

\* TrendProbabilityFilter.updateWithMetrics(velocity, mentions,
\* crossPlatform, earlySignal): push the metrics, then this.update({ value,
\* confidence: crossPlatform ? 1.2 : 1.0 })
MetricsUpdate(velocity, mentions, crossPlatform, earlySignal, noise) ==
  /\ fnName' = "updateWithMetrics"
  /\ fnArgs' = [velocityHistory |-> Append(fnArgs.velocityHistory, velocity),
                mentionHistory |-> Append(fnArgs.mentionHistory, mentions)]
  /\ fnResult' = [called |-> TRUE,
                  observedProb |-> ObservedProb(velocity, mentions,
                                                crossPlatform, earlySignal),
                  historyBefore |-> Len(pfHistory)]
  /\ UpdateBody(ObservedProb(velocity, mentions, crossPlatform, earlySignal),
                IF crossPlatform THEN 12 ELSE 10, noise)
  /\ UNCHANGED <<adVars, mcVars, hmmVars, matVars, mafVars, qcVars, prmVars>>

UpdateWithMetrics(velocity, mentions, crossPlatform, earlySignal, noise) ==
  /\ pfCalls < MaxUpdates
  /\ MetricsUpdate(velocity, mentions, crossPlatform, earlySignal, noise)

\* getViralPrediction: the trend read off the last three estimates
\* (change > 0.05 rising, change < -0.05 falling)
MaxPredictionUpdates == 3

\* a classification by the sign of the change alone
ViralTrendBySign(history) ==
  IF Len(history) >= 3
  THEN LET recent == SliceFrom(history, -3)
           change == recent[Len(recent)] - recent[1]
       IN  IF change > 0 THEN "rising"
           ELSE IF change < 0 THEN "falling" ELSE "stable"
  ELSE "stable"

\* history.slice(-3); change = recent[recent.length - 1] - recent[0]
ViralTrend(history) ==
  IF Len(history) >= 3
  THEN LET recent == SliceFrom(history, -3)
           change == recent[Len(recent)] - recent[1]
       IN  IF change > 5 * WScale THEN "rising"
           ELSE IF change < -(5 * WScale) THEN "falling" ELSE "stable"
  ELSE "stable"

\* TrendProbabilityFilter.getViralPrediction()
GetViralPrediction ==
  /\ fnName' = "getViralPrediction"
  /\ fnArgs' = [history |-> pfHistory]
  /\ fnResult' = [called |-> TRUE,
                  probability |-> GetEstimate(pfParticles),
                  confidence |-> GetCredibleInterval(pfParticles, 5 * ProbScale),
                  trend |-> ViralTrend(pfHistory)]
  /\ UNCHANGED notFn

(***************************************************************************)
(* detectTrend (time-series.ts)                                            *)
(*                                                                         *)
(* The series holds small integers, so the moving averages are the exact   *)
(* fractions sum / window; strength is the pair consistentMoves over       *)
(* shortWindow - 1 (a zero denominator is the double NaN or Infinity).     *)
(***************************************************************************)
MaxTrendLen == 4
MaxTrendWindow == 3

TrendValues == 0..2
TrendSeries == UNION {[1..n -> TrendValues] : n \in 0..MaxTrendLen}

\* the sum of values.slice(-window)
SumLast(values, window) ==
  SumSeq(SubSeq(values, Max2(1, Len(values) - window + 1), Len(values)))

\* diff = (shortMA - longMA) / longMA compared with +-0.02, on the sums
\* S = shortMA * sw and L = longMA * lw
TrendDirection(S, sw, L, lw) ==
  LET d == S * lw - L * sw
  IN  IF L > 0 THEN IF 50 * d > L * sw THEN "up"
                    ELSE IF 50 * d < -(L * sw) THEN "down" ELSE "sideways"
      ELSE IF L < 0 THEN IF 50 * d < L * sw THEN "up"
                         ELSE IF 50 * d > -(L * sw) THEN "down" ELSE "sideways"
      ELSE IF d > 0 THEN "up" ELSE IF d < 0 THEN "down" ELSE "sideways"

\* for (i = values.length - shortWindow; i < values.length; i++): the moves
\* into each of the last shortWindow values (values[-1] is undefined and
\* compares false)
ConsistentMoves(values, shortWindow, direction) ==
  Cardinality({j \in (Len(values) - shortWindow + 1)..Len(values) :
    /\ j >= 2
    /\ \/ direction = "up" /\ values[j] > values[j - 1]
       \/ direction = "down" /\ values[j] < values[j - 1]})

\* detectTrend(values, shortWindow, longWindow)
DetectTrend(values, shortWindow, longWindow) ==
  IF Len(values) < longWindow
  THEN [called |-> TRUE, direction |-> "sideways",
        strength |-> [n |-> 0, d |-> 1]]
  ELSE LET direction == TrendDirection(SumLast(values, shortWindow), shortWindow,
                                       SumLast(values, longWindow), longWindow)
       IN  [called |-> TRUE, direction |-> direction,
            strength |-> [n |-> ConsistentMoves(values, shortWindow, direction),
                          d |-> shortWindow - 1]]

InitDetectTrend ==
  /\ fnName = "detectTrend"
  /\ fnArgs \in [values : TrendSeries, shortWindow : 1..MaxTrendWindow,
                 longWindow : 1..MaxTrendWindow]
  /\ fnResult = NoCall

DetectTrendCall ==
  /\ fnName = "detectTrend"
  /\ ~fnResult.called
  /\ fnResult' = DetectTrend(fnArgs.values, fnArgs.shortWindow,
                             fnArgs.longWindow)
  /\ UNCHANGED <<fnName, fnArgs>>
  /\ UNCHANGED notFn

(***************************************************************************)
(* choleskyCorrelated and generateCorrelatedNormals (importance sampling)  *)
(*                                                                         *)
(* rho and the entries of L are numbers of the floating-point format, in   *)
(* units of 1 / FlUnit; the normals Z are small integers.                  *)
(***************************************************************************)
MaxCrashAssets == 3

\* correlations in tenths
Correlations == 0..10
FactorDraws == {-1, 0, 1}

\* choleskyCorrelated(n, rho)
CholeskyCorrelated(n, rho) ==
  TupleOf([i \in 1..n |-> TupleOf([j \in 1..n |->
    IF j > i THEN 0
    ELSE IF i = j THEN IF i = 1 THEN Fl(1, 1) ELSE FlSqrt(FlSub(Fl(1, 1), rho))
    ELSE IF j = 1 THEN FlSqrt(rho) ELSE 0], n)], n)

\* result[i] += L[i][j] * Z[j] for j = 0..i, from column j on
RECURSIVE CorrelatedSum(_, _, _, _)
CorrelatedSum(row, Z, j, last) ==
  IF j > last THEN 0
  ELSE LET rest == CorrelatedSum(row, Z, j + 1, last)
       IN  rest + row[j] * Z[j]

\* generateCorrelatedNormals(L) with the draws Z (integer draws, so the
\* products and sums are exact)
GenerateCorrelatedNormals(L, Z) ==
  TupleOf([i \in 1..Len(L) |-> CorrelatedSum(L[i], Z, 1, i)], Len(L))

InitCholesky ==
  /\ fnName = "choleskyCorrelated"
  /\ fnArgs \in [n : 1..MaxCrashAssets, rho : {Fl(r, 10) : r \in Correlations}]
  /\ fnResult = NoCall

\* const L = choleskyCorrelated(n, correlation)
CholeskyCorrelatedCall ==
  /\ fnName = "choleskyCorrelated"
  /\ ~fnResult.called
  /\ fnResult' = [called |-> TRUE, L |-> CholeskyCorrelated(fnArgs.n, fnArgs.rho)]
  /\ UNCHANGED <<fnName, fnArgs>>
  /\ UNCHANGED notFn

\* const Z = generateCorrelatedNormals(L), once per factor
GenerateCorrelatedNormalsCall ==
  /\ fnName = "choleskyCorrelated"
  /\ fnResult.called
  /\ \E Z \in [1..fnArgs.n -> FactorDraws] :
       /\ fnName' = "generateCorrelatedNormals"
       /\ fnArgs' = [n |-> fnArgs.n, rho |-> fnArgs.rho, L |-> fnResult.L,
                     Z |-> TupleOf(Z, fnArgs.n)]
       /\ fnResult' = [called |-> TRUE, L |-> fnResult.L,
                       result |-> GenerateCorrelatedNormals(fnResult.L,
                                                            TupleOf(Z, fnArgs.n))]
  /\ UNCHANGED notFn

(***************************************************************************)
(* ParticleFilter.getState and its caller                                  *)
(*                                                                         *)
(* The snapshot is { particles: [...this.particles], history:              *)
(* [...this.history], ... }: two new arrays, the first of which holds the  *)
(* filter's own particle objects.  fnResult is the snapshot as its holder  *)
(* reads it, fnArgs what it held when getState returned; shared tells      *)
(* whether the filter still works on the particle objects of the snapshot  *)
(* (update changes them in place, a resampling or a reset replaces them).  *)
(***************************************************************************)
notPFSnapshot == <<adVars, mcVars, hmmVars, matVars, mafVars, qcVars, prmVars>>

\* [...this.particles]: a new array of the same particle objects
SpreadShared == TRUE

\* ParticleFilter.getState()
GetState ==
  /\ fnName = "none"
  /\ fnName' = "getState"
  /\ fnArgs' = [particles |-> pfParticles, history |-> pfHistory,
                modified |-> FALSE]
  /\ fnResult' = [called |-> TRUE, shared |-> SpreadShared,
                  particles |-> pfParticles, history |-> pfHistory]
  /\ UNCHANGED <<pfVars, notPFSnapshot>>

\* what an update leaves in a snapshot taken earlier: the shared particle
\* objects hold the propagated states and the new weights; a resampling
\* that completes gives the filter new objects
SnapshotAfterUpdate ==
  IF fnResult.called /\ fnResult.shared
  THEN fnResult' = [fnResult EXCEPT !.particles = pfPre',
                                    !.shared = pfResample' # "done"]
  ELSE UNCHANGED fnResult

\* ParticleFilter.update(observation) while a snapshot may be held
UpdateHeld(obsValue, confidence, noise) ==
  /\ UpdateSwarm(obsValue, confidence, noise)
  /\ SnapshotAfterUpdate
  /\ UNCHANGED <<fnName, fnArgs, notPFSnapshot>>

\* ParticleFilter.reset(prior) while a snapshot may be held
ResetHeld(prior, spread) ==
  /\ pfOp # "reset"
  /\ ResetBody(prior, spread)
  /\ fnResult' = IF fnResult.called THEN [fnResult EXCEPT !.shared = FALSE]
                 ELSE fnResult
  /\ UNCHANGED <<fnName, fnArgs, notPFSnapshot>>

\* the holder writes snapshot.particles[i].weight = weight
ModifySnapshotParticle(i, weight) ==
  /\ fnResult.called /\ ~fnArgs.modified
  /\ fnResult' = [fnResult EXCEPT !.particles[i].weight = weight]
  /\ fnArgs' = [fnArgs EXCEPT !.modified = TRUE]
  /\ pfParticles' = IF fnResult.shared
                    THEN [pfParticles EXCEPT ![i].weight = weight]
                    ELSE pfParticles
  /\ UNCHANGED <<fnName, pfHistory, pfCalls, pfOp, pfPre, pfResample,
                 notPFSnapshot>>

\* the holder writes snapshot.history.push(estimate)
ModifySnapshotHistory(estimate) ==
  /\ fnResult.called /\ ~fnArgs.modified
  /\ fnResult' = [fnResult EXCEPT !.history = Append(@, estimate)]
  /\ fnArgs' = [fnArgs EXCEPT !.modified = TRUE]
  /\ UNCHANGED <<fnName, pfVars, notPFSnapshot>>

(***************************************************************************)
(* The per-topic caches of the trend integration                           *)
(*                                                                         *)
(* viralFilters and anomalyDetectors are the key sets of the two module    *)
(* level Maps (topic.normalizedName -> filter, -> detector).               *)
(***************************************************************************)
TopicKeys == {"ai", "btc", "eth"}

InitQC ==
  /\ viralFilters = {}
  /\ anomalyDetectors = {}
  /\ qcOp = "load"
  /\ qcArg = {}

IdleQC ==
  /\ viralFilters = {}
  /\ anomalyDetectors = {}
  /\ qcOp = "none"
  /\ qcArg = {}

notQC == <<adVars, mcVars, pfVars, hmmVars, matVars, mafVars, prmVars, fnVars>>

\* calculateViralProbability(topic, timeline): get or create the filter
CalculateViralProbability(key) ==
  /\ viralFilters' = viralFilters \cup {key}
  /\ qcOp' = "calculateViralProbability"
  /\ qcArg' = {key}
  /\ UNCHANGED anomalyDetectors
  /\ UNCHANGED notQC

\* detectVelocityAnomaly(topic, timeline): get or create the detector
DetectVelocityAnomaly(key) ==
  /\ anomalyDetectors' = anomalyDetectors \cup {key}
  /\ qcOp' = "detectVelocityAnomaly"
  /\ qcArg' = {key}
  /\ UNCHANGED viralFilters
  /\ UNCHANGED notQC

\* analyzeTopicQuant(topic, timeline): both of the above for the topic
AnalyzeTopicQuant(key) ==
  /\ viralFilters' = viralFilters \cup {key}
  /\ anomalyDetectors' = anomalyDetectors \cup {key}
  /\ qcOp' = "analyzeTopicQuant"
  /\ qcArg' = {key}
  /\ UNCHANGED notQC

\* for (const key of viralFilters.keys()) if (!activeTopics.has(key)): the
\* keys both deletes are applied to
StaleKeys(filters, detectors, activeTopics) == filters \ activeTopics

\* cleanupStaleFilters(activeTopics)
CleanupStaleFilters(activeTopics) ==
  /\ \E stale \in {StaleKeys(viralFilters, anomalyDetectors, activeTopics)} :
       /\ viralFilters' = viralFilters \ stale
       /\ anomalyDetectors' = anomalyDetectors \ stale
  /\ qcOp' = "cleanupStaleFilters"
  /\ qcArg' = activeTopics
  /\ UNCHANGED notQC

(***************************************************************************)
(* RegimeHMM instances and the params object they are constructed from     *)
(*                                                                         *)
(* The constructor keeps params.transitionMatrix, params.emissionMeans and *)
(* params.emissionStds as they are handed in (params?.x ?? [defaults]):    *)
(* an instance constructed from a params object works on the arrays of     *)
(* that object, one constructed without it on new arrays.  The hmm         *)
(* variables are the instance that is trained, prmOther the parameters of  *)
(* a second instance, prmParams the arrays of the caller's object, and     *)
(* prmHolders the instances that were constructed from it.                 *)
(***************************************************************************)
DefaultParams ==
  [transitionMatrix |-> DefaultTransitionMatrix,
   emissionMeans |-> DefaultEmissionMeans, emissionStds |-> DefaultEmissionStds]

IdlePrm ==
  /\ prmParams = DefaultParams
  /\ prmOther = DefaultParams
  /\ prmHolders = {}

notHMMPrm == <<adVars, mcVars, pfVars, matVars, mafVars, qcVars, fnVars>>

\* const a = new RegimeHMM(params) or new RegimeHMM(), and the same for b
InitPrm ==
  /\ prmParams \in [transitionMatrix : TransitionMatrices,
                    emissionMeans : {DefaultEmissionMeans},
                    emissionStds : {DefaultEmissionStds}]
  /\ prmHolders \in SUBSET {"this", "other"}
  /\ prmOther = IF "other" \in prmHolders THEN prmParams ELSE DefaultParams
  /\ hmmTransitionMatrix = IF "this" \in prmHolders
                           THEN prmParams.transitionMatrix
                           ELSE DefaultTransitionMatrix

\* the parameters the trained instance holds
TrainedParams ==
  [transitionMatrix |-> hmmTransitionMatrix', emissionMeans |-> hmmEmissionMeans',
   emissionStds |-> hmmEmissionStds']

\* train(returns, nIterations) on an instance: this.emissionMeans[s] = ...,
\* this.emissionStds[s] = ..., this.transitionMatrix[i][j] = ... write into
\* the arrays the instance holds, which every other holder reads
TrainHeld(returns, nIterations) ==
  /\ TrainBody(returns, nIterations)
  /\ IF "this" \in prmHolders /\ nIterations >= 1
     THEN /\ prmParams' = TrainedParams
          /\ prmOther' = IF "other" \in prmHolders THEN TrainedParams
                         ELSE prmOther
     ELSE UNCHANGED <<prmParams, prmOther>>
  /\ UNCHANGED prmHolders
  /\ UNCHANGED notHMMPrm

(***************************************************************************)
(* Specifications: one per component                                       *)
(***************************************************************************)
IdleAD ==
  /\ adMethod = "mad"
  /\ adThreshold = 0
  /\ adMaxHistory = 0
  /\ adHistory = <<>>
  /\ adResult = NoResult
  /\ adOp = "new"
  /\ adArg = <<>>
  /\ adSupplied = <<>>

IdlePF ==
  /\ pfParticles = <<>>
  /\ pfHistory = <<>>
  /\ pfCalls = 0
  /\ pfOp = "new"
  /\ pfPre = <<>>
  /\ pfResample = "none"

IdleHMM ==
  /\ hmmTransitionMatrix = DefaultTransitionMatrix
  /\ hmmEmissionMeans = DefaultEmissionMeans
  /\ hmmEmissionStds = DefaultEmissionStds
  /\ hmmStateProbs = UniformPrior
  /\ hmmHistory = <<>>
  /\ hmmOp = "new"
  /\ hmmArg = <<>>
  /\ hmmResult = NoRegimeState
  /\ hmmPath = NoPath
  /\ hmmIterations = 0

IdleMat ==
  /\ matA = <<>>
  /\ matOp = "none"
  /\ matCholesky = NoFactor
  /\ matInverse = NoInverse
  /\ matSamples = <<>>

IdleMAF == InitMAF

IdleFn ==
  /\ fnName = "none"
  /\ fnArgs = <<>>
  /\ fnResult = NoCall

NextAD ==
  \/ \E v \in AdValues : Check(v)
  \/ \E v \in AdValues : Detect(v)
  \/ \E data \in SeqsUpTo(AdValues, MaxLoad) : LoadHistory(data)
  \/ ResetAD

InitSpecAD == InitAD /\ IdleMC /\ IdlePF /\ IdleHMM /\ IdleMat /\ IdleMAF /\ IdlePrm /\ IdleQC /\ IdleFn

SpecAD == InitSpecAD /\ [][NextAD]_vars

NextDemoAD ==
  \/ \E data \in DemoHistories : LoadHistory(data)
  \/ \E v \in TestValues : Detect(v)
  \/ ResetAD

InitSpecDemoAD ==
  InitDemoAD /\ IdleMC /\ IdlePF /\ IdleHMM /\ IdleMat /\ IdleMAF /\ IdlePrm /\ IdleQC /\ IdleFn

SpecDemoAD == InitSpecDemoAD /\ [][NextDemoAD]_vars

NextMC ==
  \/ \E kind \in McKinds, n \in 1..MaxPaths, nStrata \in 1..MaxStrata,
       crit \in McCrits : StartEstimator(kind, n, nStrata, crit)
  \/ \E r \in 0..(RGrid - 1) : DrawCrude(r)
  \/ \E r \in 0..(RGrid - 1) : DrawAntithetic(r)
  \/ \E r \in 0..(RGrid - 1) : DrawStratified(r)
  \/ \E hit \in BOOLEAN, lr \in LRValues : DrawImportance(hit, lr)
  \/ \E crashed \in [1..JointAssets -> BOOLEAN],
       lrs \in [1..JointAssets -> LRValues] : DrawJoint(crashed, lrs)
  \/ FinishEstimator

InitSpecMC == IdleAD /\ IdleMC /\ IdlePF /\ IdleHMM /\ IdleMat /\ IdleMAF /\ IdlePrm /\ IdleQC /\ IdleFn

SpecMC == InitSpecMC /\ [][NextMC]_vars

NextPF ==
  \/ \E obsValue \in ObsValues, confidence \in Confidences, noise \in StepNoises :
       Update(obsValue, confidence, noise)
  \/ \E prior \in Priors, spread \in StepNoises : ResetPF(prior, spread)

InitSpecPF == IdleAD /\ IdleMC /\ InitPF /\ IdleHMM /\ IdleMat /\ IdleMAF /\ IdlePrm /\ IdleQC /\ IdleFn

SpecPF == InitSpecPF /\ [][NextPF]_vars

\* updates and resets of a filter, then queries of its credible interval
NextPFInterval ==
  \/ \E obsValue \in ObsValues, confidence \in Confidences, noise \in StepNoises :
       fnName = "none" /\ Update(obsValue, confidence, noise)
  \/ \E prior \in Priors, spread \in StepNoises :
       fnName = "none" /\ ResetPF(prior, spread)
  \/ \E alpha \in IntervalAlphas : GetCredibleIntervalCall(alpha)

SpecPFInterval == InitSpecPF /\ [][NextPFInterval]_vars

NextVaR == CalculateVaRCVaRCall

InitSpecVaR ==
  IdleAD /\ IdleMC /\ IdlePF /\ IdleHMM /\ IdleMat /\ IdleMAF /\ IdlePrm /\ IdleQC /\ InitVaR

SpecVaR == InitSpecVaR /\ [][NextVaR]_vars

NextOutcomes == SimulateCorrelatedOutcomesCall

InitSpecOutcomes ==
  IdleAD /\ IdleMC /\ IdlePF /\ IdleHMM /\ IdleMat /\ IdleMAF /\ IdlePrm /\ IdleQC /\ InitOutcomes

SpecOutcomes == InitSpecOutcomes /\ [][NextOutcomes]_vars

NextTrend ==
  \E velocity \in Velocities, mentions \in MentionCounts,
     crossPlatform \in BOOLEAN, earlySignal \in BOOLEAN, noise \in StepNoises :
    UpdateWithMetrics(velocity, mentions, crossPlatform, earlySignal, noise)

InitSpecTrend ==
  IdleAD /\ IdleMC /\ IdleHMM /\ IdleMat /\ IdleMAF /\ IdlePrm /\ IdleQC /\ InitTrend

SpecTrend == InitSpecTrend /\ [][NextTrend]_vars

\* updates of a trend filter with plain metrics, then its prediction
NextPrediction ==
  \/ \E velocity \in Velocities, noise \in {NoNoise, FirstUp} :
       /\ pfCalls < MaxPredictionUpdates
       /\ fnName # "getViralPrediction"
       /\ MetricsUpdate(velocity, 0, FALSE, FALSE, noise)
  \/ GetViralPrediction

SpecPrediction == InitSpecTrend /\ [][NextPrediction]_vars

NextHMM ==
  \/ \E return_ \in ReturnValues : UpdateHMM(return_)
  \/ \E returns \in SeqsUpTo(ReturnValues, MaxReturns) : ViterbiHMM(returns)
  \/ ResetHMM

InitSpecHMM == IdleAD /\ IdleMC /\ IdlePF /\ InitHMM /\ IdleMat /\ IdleMAF /\ IdlePrm /\ IdleQC /\ IdleFn

SpecHMM == InitSpecHMM /\ [][NextHMM]_vars

\* the filter together with training
\* the series handed to updateBatch, viterbi and train: none, one
\* observation, two, and one whose likelihoods all underflow
TrainReturns == {<<>>, <<30>>, <<0, 30>>, <<30, 1000>>}

NextHMMTrain ==
  \/ \E return_ \in ReturnValues : UpdateHMM(return_)
  \/ \E returns \in TrainReturns : UpdateBatchHMM(returns)
  \/ \E returns \in TrainReturns : ViterbiHMM(returns)
  \/ \E returns \in TrainReturns, nIterations \in 0..MaxIterations :
       TrainHMM(returns, nIterations)
  \/ ResetHMM

SpecHMMTrain == InitSpecHMM /\ [][NextHMMTrain]_vars

NextMat ==
  \/ CholeskyCall
  \/ InvertMatrixCall
  \/ \E draws \in SeqsUpTo([1..MatDim -> NormalDraws], MaxCopulaSamples) :
       SampleGaussianCopula(draws)

InitSpecMat ==
  IdleAD /\ IdleMC /\ IdlePF /\ IdleHMM /\ InitMat /\ IdleMAF /\ IdlePrm /\ IdleQC /\ IdleFn

SpecMat == InitSpecMat /\ [][NextMat]_vars

NextMAF ==
  \/ \E asset \in Assets, prior \in Priors :
       GetFilter(asset, prior, FirstUp)
  \/ \E asset \in Assets, obsValue \in ObsValues :
       UpdateAsset(asset, FirstUp, obsValue, 10, NoNoise)

InitSpecMAF ==
  IdleAD /\ IdleMC /\ IdlePF /\ IdleHMM /\ IdleMat /\ InitMAF /\ IdlePrm /\ IdleQC /\ IdleFn

SpecMAF == InitSpecMAF /\ [][NextMAF]_vars

NextForecast == ForecastCall

InitSpecForecast ==
  IdleAD /\ IdleMC /\ IdlePF /\ IdleHMM /\ IdleMat /\ IdleMAF /\ IdlePrm /\ IdleQC /\ InitForecast

SpecForecast == InitSpecForecast /\ [][NextForecast]_vars

NextDetectTrend == DetectTrendCall

InitSpecDetectTrend ==
  IdleAD /\ IdleMC /\ IdlePF /\ IdleHMM /\ IdleMat /\ IdleMAF /\ IdlePrm /\ IdleQC /\ InitDetectTrend

SpecDetectTrend == InitSpecDetectTrend /\ [][NextDetectTrend]_vars

NextCholesky == CholeskyCorrelatedCall \/ GenerateCorrelatedNormalsCall

InitSpecCholesky ==
  IdleAD /\ IdleMC /\ IdlePF /\ IdleHMM /\ IdleMat /\ IdleMAF /\ IdlePrm /\ IdleQC /\ InitCholesky

SpecCholesky == InitSpecCholesky /\ [][NextCholesky]_vars

NextPFSnapshot ==
  \/ \E obsValue \in ObsValues, noise \in {NoNoise, FirstUp} :
       UpdateHeld(obsValue, 10, noise)
  \/ \E prior \in Priors : ResetHeld(prior, NoNoise)
  \/ GetState
  \/ \E i \in 1..NParticles : ModifySnapshotParticle(i, 0)
  \/ ModifySnapshotHistory(0)

SpecPFSnapshot == InitSpecPF /\ [][NextPFSnapshot]_vars

NextQC ==
  \/ \E key \in TopicKeys : CalculateViralProbability(key)
  \/ \E key \in TopicKeys : DetectVelocityAnomaly(key)
  \/ \E key \in TopicKeys : AnalyzeTopicQuant(key)
  \/ \E activeTopics \in SUBSET TopicKeys : CleanupStaleFilters(activeTopics)

InitSpecQC ==
  IdleAD /\ IdleMC /\ IdlePF /\ IdleHMM /\ IdleMat /\ IdleMAF /\ IdlePrm /\ InitQC /\ IdleFn

SpecQC == InitSpecQC /\ [][NextQC]_vars

NextHMMHeld ==
  \/ \E return_ \in ReturnValues : UpdateHMM(return_)
  \/ \E returns \in TrainReturns, nIterations \in 0..MaxIterations :
       TrainHeld(returns, nIterations)
  \/ ResetHMM

InitSpecHMMHeld ==
  IdleAD /\ IdleMC /\ IdlePF /\ InitHMM /\ IdleMat /\ IdleMAF /\ IdleQC /\ InitPrm /\ IdleFn

SpecHMMHeld == InitSpecHMMHeld /\ [][NextHMMHeld]_vars

(***************************************************************************)
(* Claims about the AnomalyDetector                                        *)
(***************************************************************************)
\* the last n elements of s (all of s when it is shorter)
LastN(s, n) == SubSeq(s, Len(s) - Min2(Len(s), n) + 1, Len(s))

\* C5: after any sequence of check, loadHistory and reset calls, for any
\* windowSize (0 included), the history holds at most windowSize values and
\* they are the most recently supplied ones, in arrival order.
C5_HistoryIsRecentWindow ==
  /\ Len(adHistory) <= adMaxHistory
  /\ adHistory = LastN(adSupplied, adMaxHistory)

\* C6: detect(value) leaves the history as it was (same values, same order)
\* for every method, and for zscore, iqr and mad a second detect of the same
\* value right after the first returns the same result.
C6_DetectLeavesHistory ==
  [][ /\ (adOp' = "detect" => adHistory' = adHistory)
      /\ (/\ adOp = "detect" /\ adOp' = "detect" /\ adArg' = adArg
          /\ adMethod # "isolation_forest"
          => adResult' = adResult) ]_vars

\* a detect on an unsorted history of the MAD detector, long enough for the
\* method to sort it
C6_Witness ==
  /\ adOp = "detect"
  /\ adMethod = "mad"
  /\ Len(adHistory) >= 3
  /\ adHistory # SortAsc(adHistory)
  /\ adResult.method = "mad"

\* the minimum history length of each method
MinCount(method) ==
  CASE method = "zscore" -> 2
    [] method = "mad" -> 3
    [] method = "iqr" -> 4
    [] method = "isolation_forest" -> 10

\* C7: a check or detect on a history shorter than the method's minimum count
\* returns isAnomaly = false with score 0, for every value and threshold.
C7_ShortHistoryNotAnomalous ==
  [][ (adOp' \in {"check", "detect"} /\ Len(adHistory) < MinCount(adMethod))
      => (~adResult'.isAnomaly /\ adResult'.score = 0) ]_vars

AllEqual(s) == \A i \in 1..Len(s) : s[i] = s[1]

\* C8: on a zero-variance history that is long enough for the method, zscore,
\* mad and iqr alike return score 0 and isAnomaly = false for a value equal to
\* the history value, and the sentinel 999 with isAnomaly = true otherwise.
C8_ZeroVarianceSentinel ==
  [][ (/\ adOp' \in {"check", "detect"}
       /\ adMethod \in {"zscore", "mad", "iqr"}
       /\ Len(adHistory) >= MinCount(adMethod)
       /\ AllEqual(adHistory))
      => IF adArg'[1] = adHistory[1]
         THEN ~adResult'.isAnomaly /\ adResult'.score = 0
         ELSE adResult'.isAnomaly /\ adResult'.score = SentinelScore ]_vars

(***************************************************************************)
(* Claims about the ParticleFilter                                         *)
(***************************************************************************)
\* the sum of the weights may be off by one rounding unit per particle
WeightTolerance == NParticles

Probs(particles) == {Sigmoid(particles[i].state) : i \in 1..Len(particles)}

\* max - min of the particles' probabilities
Spread(particles) ==
  LET ps == Probs(particles)
  IN  (CHOOSE hi \in ps : \A p \in ps : p <= hi)
      - (CHOOSE lo \in ps : \A p \in ps : lo <= p)

\* the change of getEstimate() across the resample of the last update
ResampleShift == Abs(GetEstimate(pfParticles) - GetEstimate(pfPre))

\* epsilon: one percentage point
ResampleEps == WScale

C4_ViterbiReturnsLabels ==
  hmmOp = "viterbi" =>
    /\ ~hmmPath.threw
    /\ Len(hmmPath.path) = Len(hmmArg)
    /\ \A t \in 1..Len(hmmPath.path) :
         \E s \in 1..NStates : hmmPath.path[t] = REGIMES[s]

\* each entry is a number in [0, 1] and the entries sum to 1, up to one
\* rounding unit per state
IsProbVector(probs) ==
  /\ \A j \in 1..Len(probs) : ~probs[j].nan /\ 0 <= probs[j].v /\ probs[j].v <= WScale
  /\ Abs(SumSeq([j \in 1..Len(probs) |-> probs[j].v]) - WScale) <= Len(probs)

\* C10: after every update, for every return value, stateProbs is a
\* probability vector and equals the prediction (previous stateProbs times
\* the transition matrix) times the emission likelihoods, renormalised.
C10_UpdateGivesProbVector ==
  [][ hmmOp' = "update" =>
        /\ IsProbVector(hmmStateProbs')
        /\ hmmStateProbs' =
             Normalise(Updated(Predict(hmmStateProbs, hmmTransitionMatrix),
                               LogEmissions(hmmArg'[1], hmmEmissionMeans,
                                            hmmEmissionStds))) ]_vars

\* the number of entries at the end of the history that equal its last entry
RECURSIVE TrailingRun(_)
TrailingRun(history) ==
  IF history = <<>> THEN 0
  ELSE IF Len(history) = 1 \/ history[Len(history) - 1] # history[Len(history)]
       THEN 1
       ELSE 1 + TrailingRun(SubSeq(history, 1, Len(history) - 1))

\* the regime and duration of the last update are the arg-max of the
\* posterior and the length of the run of that regime ending the history
ReportsArgMaxAndRun ==
  /\ \E i \in 1..NStates :
       /\ hmmResult.regime = REGIMES[i]
       /\ \A j \in 1..NStates : LeqF(hmmStateProbs[j], hmmStateProbs[i])
  /\ hmmResult.regime = hmmHistory[Len(hmmHistory)]
  /\ hmmResult.duration = TrailingRun(hmmHistory)
  /\ hmmResult.duration >= 1

\* C11: the regime an update reports is the arg-max of the posterior after
\* it, and the duration it reports is the number of consecutive most recent
\* updates since construction or reset with that regime: 1 on the first
\* update or when the regime changed, the previous duration plus 1 otherwise.
C11_RegimeIsArgMaxWithDuration ==
  [][ hmmOp' = "update" =>
        /\ ReportsArgMaxAndRun'
        /\ hmmResult'.duration =
             IF hmmHistory = <<>> \/ hmmResult.regime # hmmResult'.regime
             THEN 1 ELSE hmmResult.duration + 1 ]_vars

\* C12: update, updateBatch and viterbi never change the transition matrix
\* or the emission means and stds, train never changes stateProbs or the
\* regime history, and the parameters change only in a train step.
C12_FilterAndTrainingIndependent ==
  [][ /\ hmmOp' \in {"update", "updateBatch", "viterbi"} =>
           UNCHANGED <<hmmTransitionMatrix, hmmEmissionMeans, hmmEmissionStds>>
      /\ hmmOp' = "train" => UNCHANGED <<hmmStateProbs, hmmHistory>>
      /\ <<hmmTransitionMatrix, hmmEmissionMeans, hmmEmissionStds>>' #
           <<hmmTransitionMatrix, hmmEmissionMeans, hmmEmissionStds>> =>
             hmmOp' = "train" ]_vars

\* a train after two updates that moved the belief and gave new numeric
\* parameters
C12_Witness ==
  /\ hmmOp = "train"
  /\ Len(hmmHistory) = 2
  /\ hmmStateProbs # UniformPrior
  /\ hmmTransitionMatrix \notin TransitionMatrices
  /\ hmmTransitionMatrix[1][1] # NaNParam
  /\ hmmEmissionMeans # DefaultEmissionMeans

(***************************************************************************)
(* Claims about the matrix decompositions                                  *)
(***************************************************************************)
\* symmetric positive semi-definite, for a 2 x 2 matrix
IsSymmetricPSD(A) ==
  /\ A[1][2] = A[2][1]
  /\ A[1][1] >= 0 /\ A[2][2] >= 0
  /\ A[1][1] * A[2][2] - A[1][2] * A[2][1] >= 0

IsSingular(A) == A[1][1] * A[2][2] - A[1][2] * A[2][1] = 0

\* C9: cholesky of a matrix that is not symmetric positive semi-definite and
\* invertMatrix of a singular matrix return null, never a numeric factor or
\* inverse, and sampleGaussianCopula emits no sample built from a matrix
\* that is not symmetric positive semi-definite.
C9_DecompositionsFailExplicitly ==
  /\ (matOp = "cholesky" /\ ~IsSymmetricPSD(matA)) => matCholesky.isNull
  /\ (matOp = "invertMatrix" /\ IsSingular(matA)) => matInverse.isNull
  /\ (matOp = "sampleGaussianCopula" /\ ~IsSymmetricPSD(matA)) => matSamples = <<>>

(***************************************************************************)
(* Claims about the MultiAssetParticleFilter                               *)
(***************************************************************************)
\* C13: after any getFilter and update calls there is exactly one
\* ParticleFilter per asset name ever mentioned, getFilter returns that same
\* instance on every call for the name, and update(asset, obs) leaves the
\* particles, weights and history of every other asset's filter unchanged.
C13_OneFilterPerAsset ==
  [][ /\ DOMAIN mafFilters' = mafMentioned'
      /\ mafCreated' = Cardinality(mafMentioned')
      /\ \A a, b \in DOMAIN mafFilters' :
           a # b => mafFilters'[a].id # mafFilters'[b].id
      /\ \A a \in DOMAIN mafFilters : mafFilters'[a].id = mafFilters[a].id
      /\ mafOp' = "getFilter" =>
           /\ mafReturned' = mafFilters'[mafArg'].id
           /\ \A a \in DOMAIN mafFilters : mafFilters'[a] = mafFilters[a]
      /\ mafOp' = "update" =>
           \A b \in DOMAIN mafFilters \ {mafArg'} :
             mafFilters'[b] = mafFilters[b] ]_vars

\* both assets tracked and updated, the last update on the second one
C13_Witness ==
  /\ mafOp = "update"
  /\ mafArg = "ETH"
  /\ DOMAIN mafFilters = Assets
  /\ mafFilters["BTC"].id = 1
  /\ Len(mafFilters["BTC"].history) = 1
  /\ Len(mafFilters["ETH"].history) = 1
  /\ mafFilters["BTC"].particles # mafFilters["ETH"].particles

(***************************************************************************)
(* Claims about the estimators                                             *)
(***************************************************************************)
\* C1: every estimator (crude, antithetic, stratified for any nStrata >= 1,
\* importance sampling, joint crash) returns ci95[0] <= estimate <= ci95[1].
C1_IntervalBracketsEstimate ==
  mcPc = "done" =>
    /\ LeqF(mcResult.ci95[1], mcResult.estimate)
    /\ LeqF(mcResult.estimate, mcResult.ci95[2])

(***************************************************************************)
(* Claims about the time series functions                                  *)
(***************************************************************************)
\* the call was forecast on a series of equal values
ConstantSeriesForecast ==
  /\ fnName = "forecast"
  /\ fnResult.called
  /\ \A i \in 1..Len(fnArgs.values) : fnArgs.values[i] = fnArgs.values[1]

\* C14: forecast on a constant series (at least two values, all equal to c)
\* returns c as every forecast point, for every alpha and beta in [0, 1],
\* with zero mse and mae and with ci95Lower = ci95Upper = c.
C14_ConstantSeriesForecast ==
  ConstantSeriesForecast =>
    /\ \A h \in 1..fnArgs.nAhead :
         /\ fnResult.forecast[h] = fnArgs.values[1]
         /\ fnResult.ci95Lower[h] = fnArgs.values[1]
         /\ fnResult.ci95Upper[h] = fnArgs.values[1]
    /\ fnResult.mse = 0
    /\ fnResult.mae = 0

\* C14, the part that holds: with alpha 0 or 1 the products are exact and so
\* is the result.
C14_ExactForAlpha0Or1 ==
  ConstantSeriesForecast /\ fnArgs.alpha \in {Fl(0, 1), Fl(1, 1)} =>
    /\ \A h \in 1..fnArgs.nAhead :
         /\ fnResult.forecast[h] = fnArgs.values[1]
         /\ fnResult.ci95Lower[h] = fnArgs.values[1]
         /\ fnResult.ci95Upper[h] = fnArgs.values[1]
    /\ fnResult.mse = 0
    /\ fnResult.mae = 0

(***************************************************************************)
(* Claims about the demo's MAD detector                                    *)
(***************************************************************************)
\* the median and the MAD of a history, as detectAnomalyMAD takes them
MedianOf(history) == SortAsc(history)[(Len(history) \div 2) + 1]
MadOf(history) ==
  SortAsc([i \in 1..Len(history) |->
             Abs(history[i] - MedianOf(history))])[(Len(history) \div 2) + 1]

\* 0.6745 * |v - median| / MAD > threshold on doubles: with MAD = 0 the
\* quotient is Infinity for v # median and NaN for v = median
ModifiedZExceeds(v, history, threshold) ==
  IF MadOf(history) = 0 THEN v # MedianOf(history)
  ELSE 6745 * Abs(v - MedianOf(history)) * ThScale
         > threshold * 10000 * MadOf(history)

IsResampledSwarm ==
  /\ Len(pfParticles) = NParticles
  /\ \A i \in 1..Len(pfParticles) :
       /\ pfParticles[i].weight = UniformWeight(NParticles)
       /\ \E j \in 1..Len(pfPre) : pfParticles[i].state = pfPre[j].state

\* C16: update resamples exactly when the effective sample size after
\* reweighting is below resampleThreshold * nParticles; then the swarm is
\* replaced by nParticles copies of pre-resample particles with weight
\* 1 / nParticles and the loop index never runs past the last particle;
\* otherwise the swarm is left as propagated and reweighted.
C16_ResamplesWhenEssLow ==
  pfOp = "update" =>
    IF EssBelowThreshold(pfPre)
    THEN pfResample = "done" /\ IsResampledSwarm
    ELSE pfResample = "none" /\ pfParticles = pfPre

\* C16, the part that holds: whenever the loop index stays inside the array
C16_ResamplesUnlessIndexOverrun ==
  pfOp = "update" /\ pfResample # "threw" =>
    IF EssBelowThreshold(pfPre)
    THEN pfResample = "done" /\ IsResampledSwarm
    ELSE pfResample = "none" /\ pfParticles = pfPre

\* the first (smallest) probability at which the cumulative weight reaches
\* the level q / 2 (q in WScale units); the largest one if it never does
RECURSIVE WeightedQuantile(_, _, _, _)
WeightedQuantile(sorted, i, cumWeight, q) ==
  IF i = Len(sorted) \/ 2 * (cumWeight + sorted[i].weight) >= q
  THEN sorted[i].prob
  ELSE WeightedQuantile(sorted, i + 1, cumWeight + sorted[i].weight, q)

\* C17: getCredibleInterval(alpha) returns the weighted quantiles of the
\* sorted particle probabilities: lower is the first probability at which the
\* cumulative weight reaches alpha / 2, upper the first at which it reaches
\* 1 - alpha / 2, for every weight distribution; hence lower <= upper.
C17_IntervalIsWeightedQuantiles ==
  fnName = "getCredibleInterval" =>
    LET sorted == SortedProbs(fnArgs.particles)
    IN  /\ fnResult.lower = WeightedQuantile(sorted, 1, 0, fnArgs.alpha)
        /\ fnResult.upper =
             WeightedQuantile(sorted, 1, 0, 2 * WScale - fnArgs.alpha)
        /\ fnResult.lower <= fnResult.upper

\* C17, the parts that hold: upper is the quantile and lower <= upper
C17_UpperIsQuantile ==
  fnName = "getCredibleInterval" =>
    /\ fnResult.upper =
         WeightedQuantile(SortedProbs(fnArgs.particles), 1, 0,
                          2 * WScale - fnArgs.alpha)
    /\ fnResult.lower <= fnResult.upper

(***************************************************************************)
(* Claims about calculateVaRCVaR                                           *)
(***************************************************************************)
\* C18: calculateVaRCVaR takes VaR as the negated element of the ascending
\* returns at index floor(n * (1 - confidence)) and CVaR as the negated mean
\* of the elements up to that index; for every non-empty returns and every
\* confidence in (0, 1] the index is inside the array and CVaR >= VaR.
C18_TailIndexInsideAndCVaRAboveVaR ==
  fnName = "calculateVaRCVaR" /\ fnResult.called =>
    /\ fnResult.idx < Len(fnArgs.returns)
    /\ fnResult.var = Num(-SortAsc(fnArgs.returns)[fnResult.idx + 1])
    /\ LeqF(fnResult.var, fnResult.cvar)

\* C18, a part that holds: the index is inside the array unless
\* 1 - confidence rounds to 1
C18_IndexInsideUnlessRounded ==
  fnName = "calculateVaRCVaR" /\ fnResult.called
    /\ FlSub(Fl(1, 1), fnArgs.confidence) < Fl(1, 1) =>
    /\ fnResult.idx < Len(fnArgs.returns)
    /\ fnResult.var = Num(-SortAsc(fnArgs.returns)[fnResult.idx + 1])

(***************************************************************************)
(* Claims about simulateCorrelatedOutcomes                                 *)
(***************************************************************************)
\* a <= b on fractions
FLeq(a, b) == a.n * b.d <= b.n * a.d

\* C19: asset j is 'up' in a sample exactly when the copula coordinate u_j is
\* below its probability p_j, and for d >= 1 the joint frequencies are
\* consistent: allUp + anyDown = 1, allDown + anyUp = 1, allUp <= anyUp,
\* allDown <= anyDown, and no sample is counted in both allUp and allDown.
C19_JointFrequenciesConsistent ==
  fnName = "simulateCorrelatedOutcomes" /\ fnResult.called =>
    LET r == fnResult
        d == Len(fnArgs.probabilities)
        samples == 1..Len(fnArgs.U)
    IN  /\ \A i \in samples : \A j \in 1..d :
             r.outcomes[i][j] = 1 <=>
               ~fnArgs.U[i][j].nan /\ fnArgs.U[i][j].v < fnArgs.probabilities[j]
        /\ \A i \in samples : \A j \in 1..d : r.outcomes[i][j] \in {0, 1}
        /\ FSub(Frac(1, 1), r.allUp) = r.anyDown
        /\ FSub(Frac(1, 1), r.allDown) = r.anyUp
        /\ FLeq(r.allUp, r.anyUp)
        /\ FLeq(r.allDown, r.anyDown)
        /\ \A i \in samples :
             ~(/\ \A j \in 1..d : r.outcomes[i][j] = 1
               /\ \A j \in 1..d : r.outcomes[i][j] = 0)
        /\ r.allUp.n * fnArgs.nSamples
             = r.allUp.d * Cardinality({i \in samples :
                                         \A j \in 1..d : r.outcomes[i][j] = 1})
        /\ r.allDown.n * fnArgs.nSamples
             = r.allDown.d * Cardinality({i \in samples :
                                           \A j \in 1..d : r.outcomes[i][j] = 0})

\* two assets, one sample all up and one mixed
C19_Witness ==
  /\ fnName = "simulateCorrelatedOutcomes"
  /\ fnResult.called
  /\ Len(fnArgs.probabilities) = 2
  /\ fnResult.outcomes = <<<<1, 1>>, <<0, 1>>>>
  /\ fnResult.allUp = Frac(1, 2)
  /\ fnResult.allDown = Frac(0, 1)

(***************************************************************************)
(* Claims about the TrendProbabilityFilter                                 *)
(***************************************************************************)
\* C20: updateWithMetrics turns the metrics into one pseudo-observation that
\* lies in [0, 1] for every velocity and every mention count >= 0, and feeds
\* exactly one observation through update: the estimate history grows by
\* one.
C20_ObservationInUnitInterval ==
  fnName = "updateWithMetrics" =>
    /\ 0 <= fnResult.observedProb
    /\ fnResult.observedProb <= ProbScale
    /\ Len(pfHistory) = fnResult.historyBefore + 1

\* C20, the part that holds: the observation is at most 1, and at least 0
\* for a velocity of -2 or more
C20_ObservationAtMostOne ==
  fnName = "updateWithMetrics" =>
    /\ fnResult.observedProb <= ProbScale
    /\ fnArgs.velocityHistory[Len(fnArgs.velocityHistory)] >= -2 =>
         0 <= fnResult.observedProb
    /\ pfResample # "threw" => Len(pfHistory) = fnResult.historyBefore + 1

\* the change between the oldest and the newest of the last three estimates
RecentChange(history) == history[Len(history)] - history[Len(history) - 2]

\* C21 as stated: the trend follows the sign of the change between the
\* oldest and the newest of the last three estimates: rising when positive,
\* falling when negative, stable when zero or with fewer than three
\* estimates.
C21_TrendFollowsSign ==
  fnName = "getViralPrediction" =>
    fnResult.trend =
      IF Len(fnArgs.history) < 3 \/ RecentChange(fnArgs.history) = 0
      THEN "stable"
      ELSE IF RecentChange(fnArgs.history) > 0 THEN "rising" ELSE "falling"

\* C21, amended: the trend is rising when that change exceeds 0.05, falling
\* when it is below -0.05, and stable otherwise, in particular for a change
\* of at most 0.05 either way and with fewer than three estimates.
C21_TrendFollowsChangeBeyondBand ==
  fnName = "getViralPrediction" =>
    fnResult.trend =
      IF Len(fnArgs.history) < 3 THEN "stable"
      ELSE IF RecentChange(fnArgs.history) > 5 * WScale THEN "rising"
      ELSE IF RecentChange(fnArgs.history) < -(5 * WScale) THEN "falling"
      ELSE "stable"

\* three estimates whose change is positive but within the band
C21_Witness ==
  /\ fnName = "getViralPrediction"
  /\ Len(fnArgs.history) >= 3
  /\ RecentChange(fnArgs.history) > 0
  /\ RecentChange(fnArgs.history) <= 5 * WScale
  /\ fnResult.trend = "stable"

C23_StrengthInUnitInterval ==
  fnName = "detectTrend" /\ fnResult.called =>
    /\ fnResult.strength.d > 0
    /\ 0 <= fnResult.strength.n
    /\ fnResult.strength.n <= fnResult.strength.d
    /\ (fnResult.direction = "sideways"
        \/ Len(fnArgs.values) < fnArgs.longWindow) => fnResult.strength.n = 0

\* the part that holds: the consistent moves never exceed shortWindow, and
\* the count is 0 for a sideways or too short series
C23_MovesAtMostShortWindow ==
  fnName = "detectTrend" /\ fnResult.called =>
    /\ 0 <= fnResult.strength.n
    /\ fnResult.strength.n <= fnArgs.shortWindow
    /\ (fnResult.direction = "sideways"
        \/ Len(fnArgs.values) < fnArgs.longWindow) => fnResult.strength.n = 0

(***************************************************************************)
(* Claims about choleskyCorrelated                                         *)
(***************************************************************************)
\* the entry (i, j) of L * L^T, in units of 1 / FlUnit^2
ProductEntry(L, i, j) ==
  SumSeq(TupleOf([k \in 1..Len(L) |-> L[i][k] * L[j][k]], Len(L)))

\* two square roots and their squares round by well under 1 / 32
CholeskyTolerance == (FlUnit * FlUnit) \div 32

Near(x, y) == Abs(x - y) <= CholeskyTolerance

\* C24: L is a Cholesky factor of the uniform correlation matrix: for every
\* n >= 2 and rho in [0, 1], L * L^T has 1 on the diagonal and rho in every
\* off-diagonal entry (up to the rounding of Math.sqrt), pairs with the
\* first asset included.
C24_FactorOfUniformCorrelation ==
  fnResult.called /\ fnArgs.n >= 2
    /\ fnName \in {"choleskyCorrelated", "generateCorrelatedNormals"} =>
    \A i, j \in 1..fnArgs.n :
      Near(ProductEntry(fnResult.L, i, j),
           IF i = j THEN FlUnit * FlUnit ELSE fnArgs.rho * FlUnit)

\* what holds: the diagonal is 1 and the pairs without the first asset get
\* rho, while a pair with the first asset gets sqrt(rho); the correlated
\* normals are L * Z
C24_FirstAssetGetsRootRho ==
  fnResult.called /\ fnArgs.n >= 2
    /\ fnName \in {"choleskyCorrelated", "generateCorrelatedNormals"} =>
    /\ \A i, j \in 1..fnArgs.n :
         IF i = j THEN Near(ProductEntry(fnResult.L, i, j), FlUnit * FlUnit)
         ELSE IF i = 1 \/ j = 1
              THEN ProductEntry(fnResult.L, i, j) = FlSqrt(fnArgs.rho) * FlUnit
              ELSE Near(ProductEntry(fnResult.L, i, j), fnArgs.rho * FlUnit)
    /\ fnName = "generateCorrelatedNormals" =>
         \A i \in 1..fnArgs.n :
           fnResult.result[i] =
             SumSeq(TupleOf([k \in 1..fnArgs.n |->
                      fnResult.L[i][k] * fnArgs.Z[k]], fnArgs.n))

(***************************************************************************)
(* Claims about AnomalyDetector.check                                      *)
(***************************************************************************)
\* C25: the result of check(v) is the result detect(v) gives on the history
\* as it was immediately before the call (for isolation_forest: one of the
\* results it can give), so v never influences its own score; afterwards v
\* is the newest entry of the history unless windowSize is 0, behind the
\* most recent of the earlier entries.
C25_CheckIsDetectThenPush ==
  [][adOp' = "check" /\ adSupplied' # adSupplied =>
       LET v == adArg'[1]
           kept == Len(adHistory') - 1
       IN  /\ adResult' \in {out.result :
                out \in DetectOutcomes(adMethod, v, adHistory, adThreshold)}
           /\ adMaxHistory > 0 =>
                /\ Len(adHistory') >= 1
                /\ adHistory'[Len(adHistory')] = v
                /\ SubSeq(adHistory', 1, kept) = LastN(adHistory, kept)]_vars

\* a check on a full window that scored its value
C25_Witness ==
  /\ adOp = "check"
  /\ adMaxHistory >= 2
  /\ Len(adSupplied) > adMaxHistory
  /\ Len(adHistory) = adMaxHistory
  /\ adHistory[Len(adHistory)] = adArg[1]
  /\ adResult.score > 0

(***************************************************************************)
(* Claims about the trained transition matrix                              *)
(***************************************************************************)
\* every entry is a probability and every row sums to 1 (up to the rounding
\* of the entries to percent)
RowStochastic(matrix) ==
  \A i \in 1..NStates :
    /\ \A j \in 1..NStates : matrix[i][j] # NaNParam /\ matrix[i][j] \in 0..ProbScale
    /\ Abs(SumSeq(matrix[i]) - ProbScale) <= NStates

\* C26: the transition matrix is row-stochastic after construction with the
\* defaults and stays so after every train call on non-empty returns, a
\* single observation included.
C26_TrainKeepsRowStochastic ==
  [][hmmOp' = "train" /\ hmmArg' # <<>> /\ RowStochastic(hmmTransitionMatrix)
       => RowStochastic(hmmTransitionMatrix')]_vars

\* the rows survive a train on two or more returns none of which underflows
\* every likelihood
C26_TrainOnTwoKeepsRowStochastic ==
  [][hmmOp' = "train" /\ hmmArg' = <<0, 30>> /\ RowStochastic(hmmTransitionMatrix)
       => RowStochastic(hmmTransitionMatrix')]_vars

(***************************************************************************)
(* Claims about ParticleFilter.getState                                    *)
(***************************************************************************)
\* C27: the snapshot getState returns is isolated from the filter: a later
\* update or reset changes neither the particle states and weights nor the
\* history in the snapshot, and a modification of the snapshot does not
\* change the filter.
C27_SnapshotIsolated ==
  [][fnResult.called =>
       IF fnArgs'.modified # fnArgs.modified
       THEN UNCHANGED <<pfParticles, pfHistory>>
       ELSE /\ fnResult'.particles = fnResult.particles
            /\ fnResult'.history = fnResult.history]_vars

\* what holds: the two arrays are the snapshot's own (the history is never
\* changed by the filter nor the filter's by the holder, and the snapshot
\* keeps its length), and a reset leaves the snapshot as it is
C27_ArraysIsolated ==
  [][fnResult.called =>
       /\ Len(fnResult'.particles) = Len(fnResult.particles)
       /\ fnArgs'.modified = fnArgs.modified =>
            fnResult'.history = fnResult.history
       /\ fnArgs'.modified # fnArgs.modified => pfHistory' = pfHistory
       /\ pfOp' = "reset" /\ pfOp # "reset" =>
            fnResult'.particles = fnResult.particles]_vars

(***************************************************************************)
(* Claims about cleanupStaleFilters                                        *)
(***************************************************************************)
\* C28: after cleanupStaleFilters(activeTopics) neither cache holds an entry
\* for a topic that is not in activeTopics, and every entry for an active
\* topic is kept.
C28_CleanupKeepsExactlyActive ==
  [][qcOp' = "cleanupStaleFilters" =>
       /\ viralFilters' = viralFilters \cap qcArg'
       /\ anomalyDetectors' = anomalyDetectors \cap qcArg']_vars

\* what holds: the filters are cut to the active topics, entries of active
\* topics are kept in both caches, and a detector goes only with a filter
C28_CleanupFollowsFilters ==
  [][qcOp' = "cleanupStaleFilters" =>
       /\ viralFilters' = viralFilters \cap qcArg'
       /\ anomalyDetectors \cap qcArg' \subseteq anomalyDetectors'
       /\ anomalyDetectors' = anomalyDetectors \ (viralFilters \ qcArg')]_vars

(***************************************************************************)
(* Claims about the anomaly flag and the score                             *)
(***************************************************************************)
\* C29: for every method, value, history and non-negative threshold the
\* result has isAnomaly true exactly when its score is greater than its
\* threshold.
C29_FlagIsScoreAboveThreshold ==
  adOp \in {"check", "detect"} /\ adThreshold >= 0 =>
    (adResult.isAnomaly <=> adResult.score > ThOnScore(adResult.threshold))

\* what holds: the equivalence for zscore, mad and isolation_forest; for
\* iqr the flag is set exactly when the score is positive
C29_FlagIsScoreAboveThresholdButIQR ==
  adOp \in {"check", "detect"} /\ adThreshold >= 0 =>
    IF adResult.method = "iqr"
    THEN adResult.isAnomaly <=> adResult.score > 0
    ELSE adResult.isAnomaly <=> adResult.score > ThOnScore(adResult.threshold)

(***************************************************************************)
(* Claims about the ownership of the HMM parameters                        *)
(***************************************************************************)
\* C30: every RegimeHMM instance owns its parameters: train on one instance
\* changes neither the parameters of another instance (one constructed from
\* the same params object included) nor the arrays of the caller's params
\* object.
C30_TrainChangesOwnParametersOnly ==
  [][hmmOp' = "train" => prmOther' = prmOther /\ prmParams' = prmParams]_vars

\* what holds: an instance constructed without a params object owns its
\* arrays, and one constructed from it leaves alone the instances that were
\* not
C30_DefaultInstanceOwnsParameters ==
  [][hmmOp' = "train" =>
       /\ "this" \notin prmHolders =>
            prmOther' = prmOther /\ prmParams' = prmParams
       /\ "other" \notin prmHolders => prmOther' = prmOther]_vars

====
